---- MODULE Spec2Model ----
(***************************************************************************)
(* KRIZZY OPS: notifier, flow triggers, probes, the ops routes of the web  *)
(* application and the worker process (src/web/ops/*.js,                   *)
(* airtable_utils.js).                                                     *)
(*                                                                         *)
(* Every asynchronous function is a frame on the call stack of a task.     *)
(* A frame holds the function's parameters and locals and the await it is  *)
(* parked at (pc).  One action is one run of the code between two awaits.  *)
(* The outcome of an outbound call (resolve with a status, reject with an  *)
(* error, never answer) is chosen by the environment; "never answers" is   *)
(* the behaviour in which the response action is not taken.                *)
(***************************************************************************)
EXTENDS Integers, Sequences, FiniteSets, TLC

VARIABLES
    env,      \* process.env: variable name -> [set, val]
    world,    \* the external systems: the n8n workflow list body, the feed, and the
              \* statuses and bodies they answer with
    tasks,    \* task id -> call stack (sequence of frames, head = running frame)
    ret,      \* task id -> how the frame popped last settled: none / value / throw
    trace,    \* task id -> what the task did: outbound requests, notifier calls, log lines
    worker    \* worker.js process state: phase, heartbeat counter, timer ticks, exit code

vars == <<env, world, tasks, ret, trace, worker>>

(***************************************************************************)
(* Bounds of the model.                                                    *)
(***************************************************************************)
\* Longest workflow list the n8n list endpoint answers with.
MaxList == 2
\* Largest number of entries of the feed, and largest sample size asked for.
MaxFeed == 3
\* Most cycle ticks, heartbeat ticks and crash events of one run of the worker.
MaxCycles == 2
MaxBeats == 2
MaxCrashes == 2
\* Most timer ticks and crash events of one run of the worker, taken together.
MaxEvents == 2

(***************************************************************************)
(* JavaScript values.                                                      *)
(***************************************************************************)
\* Strings the code inspects character by character (trim, includes, the trailing
\* slash of a URL) are sequences of characters; an environment value is unset or a string.
Unset == [set |-> FALSE, val |-> <<>>]
Str(cs) == [set |-> TRUE, val |-> cs]

\* JS truthiness of an environment value: undefined and '' are falsy.
Truthy(v) == v.set /\ Len(v.val) > 0

IsSpace(c) == c = " "

RECURSIVE TrimLeft(_)
TrimLeft(cs) == IF Len(cs) > 0 /\ IsSpace(cs[1]) THEN TrimLeft(Tail(cs)) ELSE cs

RECURSIVE TrimRight(_)
TrimRight(cs) ==
    IF Len(cs) > 0 /\ IsSpace(cs[Len(cs)])
    THEN TrimRight(SubSeq(cs, 1, Len(cs) - 1))
    ELSE cs

\* String.prototype.trim
Trim(cs) == TrimRight(TrimLeft(cs))

\* String.prototype.includes
Includes(cs, m) ==
    \E i \in 1..(Len(cs) - Len(m) + 1) : SubSeq(cs, i, i + Len(m) - 1) = m

\* Array.prototype.join(', ') over key names
RECURSIVE Join(_)
Join(ks) ==
    IF Len(ks) = 0 THEN ""
    ELSE IF Len(ks) = 1 THEN ks[1]
    ELSE ks[1] \o ", " \o Join(Tail(ks))

\* response.ok of node-fetch: status in 200..299
IsOk(status) == status >= 200 /\ status <= 299

\* String(e) of an Error object
StringOf(e) == e.name \o ": " \o e.message

Has(r, k) == k \in DOMAIN r

\* a || b on environment values
OrElse(a, b) == IF Truthy(a) THEN a ELSE b

(***************************************************************************)
(* The environment's answers.                                              *)
(***************************************************************************)
\* HTTP statuses an external system may answer with (both edges of the 2xx range), and
\* those it answers with in this run.
AllStatuses == {200, 299, 300, 500}
Statuses == world.statuses

\* What a rejected fetch throws.
NetError == [name |-> "FetchError", message |-> "ECONNREFUSED"]
\* What r.json() throws on a body that is not JSON.
JsonError == [name |-> "SyntaxError", message |-> "Unexpected token < in JSON"]
\* What calling .find on a value that is no array throws.
FindError == [name |-> "TypeError", message |-> "find is not a function"]

\* Bodies resp.text() may resolve to, and those it resolves to in this run.
AllBodies == {"", "rate limited"}
Bodies == world.bodies

(***************************************************************************)
(* Tasks, frames, and what a task has done.                                *)
(***************************************************************************)
Top(t) == Head(tasks[t])

\* Task t is running function fn and is parked at pc.
At(t, fn, pc) == Len(tasks[t]) > 0 /\ Top(t).fn = fn /\ Top(t).pc = pc

\* The callee awaited by the running frame of t has settled.
Settled(t) == ret[t].kind # "none"

\* The value undefined.
Undefined == [undefined |-> TRUE]

NoRet == [kind |-> "none", val |-> Undefined]
Value(v) == [kind |-> "value", val |-> v]
Thrown(e) == [kind |-> "throw", val |-> e]

\* The running frame becomes f.
Goto(t, f) == [tasks EXCEPT ![t] = <<f>> \o Tail(@)]
\* The running frame becomes f and awaits the new frame g.
Call(t, f, g) == [tasks EXCEPT ![t] = <<g, f>> \o Tail(@)]
\* The running frame ends.
Pop(t) == [tasks EXCEPT ![t] = Tail(@)]

NetEv(what, data) == [kind |-> "net", what |-> what, data |-> data]
CallEv(what, data) == [kind |-> "call", what |-> what, data |-> data]
LogEv(what, data) == [kind |-> "log", what |-> what, data |-> data]
\* What an external system answered a probe with.
RespEv(what, data) == [kind |-> "resp", what |-> what, data |-> data]

\* The first event of a task: the operation it invokes (the frame it starts with).
RootEv(frame) == [kind |-> "root", what |-> frame.fn, data |-> frame]
Root(t) == trace[t][1].data
\* The task has run to its end: its promise has settled with ret[t].
Finished(t) == Len(tasks[t]) = 0

Emit(t, evs) == [trace EXCEPT ![t] = @ \o evs]

\* The events of task t of one kind and subject.
Events(t, kind, what) == SelectSeq(trace[t], LAMBDA e : e.kind = kind /\ e.what = what)
Count(t, kind, what) == Len(Events(t, kind, what))

(***************************************************************************)
(* discord_utils.js: sendOpsMessage(message, options)                      *)
(* frame [fn, pc, message, options, status]                                *)
(***************************************************************************)
SendOpsFrame(message, options) ==
    [fn |-> "sendOpsMessage", pc |-> "start", message |-> message,
     options |-> options, status |-> 0]

\* Mutant: the destination is read from the environment only.
WebhookUrlOf_EnvOnly(options) == env["DISCORD_WEBHOOK_OPS"]

\* const webhookUrl = options.webhookUrl || process.env.DISCORD_WEBHOOK_OPS
WebhookUrlOf(options) == OrElse(options.webhookUrl, env["DISCORD_WEBHOOK_OPS"])

\* typeof message === 'string' ? message : JSON.stringify(message)
ContentOf(message) ==
    IF message.typ = "string" THEN message
    ELSE [typ |-> "string", head |-> "", body |-> message]

NotSetError == "DISCORD_WEBHOOK_OPS is not set"

\* Lines 5-17: no destination: warn and return; else issue the POST and await it.
SendOps_Start(t) ==
    /\ At(t, "sendOpsMessage", "start")
    /\ LET f == Top(t)
           url == WebhookUrlOf(f.options)
       IN  IF ~Truthy(url)
           THEN /\ tasks' = Pop(t)
                /\ ret' = [ret EXCEPT ![t] = Value([ok |-> FALSE, error |-> NotSetError])]
                /\ trace' = Emit(t, <<LogEv("sendOpsMessage skipped", NotSetError)>>)
           ELSE /\ tasks' = Goto(t, [f EXCEPT !.pc = "fetch"])
                /\ ret' = ret
                /\ trace' = Emit(t, <<NetEv("discord",
                                   [url |-> url, body |-> [content |-> ContentOf(f.message)]])>>)
    /\ UNCHANGED <<env, world>>

\* Lines 13-24: the POST is answered: 2xx returns {ok:true}, else read the body.
SendOps_FetchResolves(t) ==
    /\ At(t, "sendOpsMessage", "fetch")
    /\ \E status \in Statuses :
          IF IsOk(status)
          THEN /\ tasks' = Pop(t)
               /\ ret' = [ret EXCEPT ![t] = Value([ok |-> TRUE])]
          ELSE /\ tasks' = Goto(t, [Top(t) EXCEPT !.pc = "text", !.status = status])
               /\ ret' = ret
    /\ UNCHANGED <<env, world, trace>>

\* Line 13: the awaited fetch rejects; nothing catches it in sendOpsMessage.
SendOps_FetchRejects(t) ==
    /\ At(t, "sendOpsMessage", "fetch")
    /\ tasks' = Pop(t)
    /\ ret' = [ret EXCEPT ![t] = Thrown(NetError)]
    /\ UNCHANGED <<env, world, trace>>

\* Lines 20-22: resp.text().catch(() => ''), log, return {ok:false, status, text}.
SendOps_TextSettles(t) ==
    /\ At(t, "sendOpsMessage", "text")
    /\ \E text \in Bodies :
          LET r == [ok |-> FALSE, status |-> Top(t).status, text |-> text]
          IN  /\ tasks' = Pop(t)
              /\ ret' = [ret EXCEPT ![t] = Value(r)]
              /\ trace' = Emit(t, <<LogEv("Discord webhook failed", r)>>)
    /\ UNCHANGED <<env, world>>

(***************************************************************************)
(* rei_dispo.js: triggerReiFlow, govcon_subtrap.js: triggerGovConFlow      *)
(* frame [fn, pc, flow, wf, err]                                           *)
(***************************************************************************)
Flows == {"rei", "govcon"}

REI_DISPO == <<"R", "E", "I", "_", "D", "I", "S", "P", "O">>
REI == <<"R", "E", "I">>
GOVCON == <<"G", "O", "V", "C", "O", "N">>
SUBTRAP == <<"S", "U", "B", "T", "R", "A", "P">>

\* Mutant: each trigger reads the other flow's webhook variable.
WebhookVar_Swapped(flow) ==
    IF flow = "rei" THEN "N8N_GOVCON_SUBTRAP_WEBHOOK_URL" ELSE "N8N_REI_DISPO_WEBHOOK_URL"

\* const webhook = process.env.N8N_REI_DISPO_WEBHOOK_URL (N8N_GOVCON_SUBTRAP_WEBHOOK_URL)
WebhookVar(flow) ==
    IF flow = "rei" THEN "N8N_REI_DISPO_WEBHOOK_URL" ELSE "N8N_GOVCON_SUBTRAP_WEBHOOK_URL"
Primary(flow) == IF flow = "rei" THEN REI_DISPO ELSE GOVCON
Fallback(flow) == IF flow = "rei" THEN REI ELSE SUBTRAP
NotFoundError(flow) ==
    IF flow = "rei" THEN "REI workflow not found" ELSE "GovCon workflow not found"
FailedHead(flow) ==
    IF flow = "rei" THEN "REI trigger failed: " ELSE "GovCon trigger failed: "
FailedLog(flow) ==
    IF flow = "rei" THEN "REI flow trigger failed" ELSE "GovCon flow trigger failed"
SourceOf(flow) == IF flow = "rei" THEN "rei_dispo.trigger" ELSE "govcon_subtrap.trigger"

TriggerFrame(flow) ==
    [fn |-> "trigger", pc |-> "start", flow |-> flow, wf |-> 0, err |-> NetError]

\* (process.env.N8N_BASE_URL || '').replace(/\/$/, '')
BaseUrl ==
    LET raw == OrElse(env["N8N_BASE_URL"], Str(<<>>)).val
    IN  IF Len(raw) > 0 /\ raw[Len(raw)] = "/" THEN SubSeq(raw, 1, Len(raw) - 1) ELSE raw

\* list?.data || []   (a body that is null or has no data gives the empty list)
DataOf(list) == IF list.kind \in {"list", "notArray"} THEN list.data ELSE <<>>

\* w.name?.includes(marker)
NameHas(w, marker) == w.hasName /\ Includes(w.name, marker)

\* Array.prototype.find: the index of the first workflow whose name has the marker, 0 if none.
FindFirst(ws, marker) ==
    LET hits == {i \in 1..Len(ws) : NameHas(ws[i], marker)}
    IN  IF hits = {} THEN 0 ELSE CHOOSE i \in hits : \A j \in hits : i <= j

\* Mutant: the first workflow whose name has either marker.
SelectWorkflow_FirstEither(flow, ws) ==
    LET hits == {i \in 1..Len(ws) :
                    NameHas(ws[i], Primary(flow)) \/ NameHas(ws[i], Fallback(flow))}
    IN  IF hits = {} THEN 0 ELSE CHOOSE i \in hits : \A j \in hits : i <= j

\* find(primary) || find(fallback): the index of the selected workflow, 0 if none.
SelectWorkflow(flow, ws) ==
    IF FindFirst(ws, Primary(flow)) # 0
    THEN FindFirst(ws, Primary(flow))
    ELSE FindFirst(ws, Fallback(flow))

\* The catch block of the list-then-run path: log, then await sendOpsMessage(...).
EnterCatch(t, e) ==
    LET f == Top(t)
        msg == [typ |-> "string", head |-> FailedHead(f.flow), body |-> StringOf(e)]
    IN  /\ tasks' = Call(t, [f EXCEPT !.pc = "catchNotify", !.err = e],
                            SendOpsFrame(msg, [webhookUrl |-> Unset]))
        /\ ret' = [ret EXCEPT ![t] = NoRet]
        /\ trace' = Emit(t, <<LogEv(FailedLog(f.flow), StringOf(e)),
                              CallEv("sendOpsMessage", msg)>>)

\* Lines 12-20 (rei), 25-33 (govcon): direct webhook, else base URL, else "not set".
Trigger_Start(t) ==
    /\ At(t, "trigger", "start")
    /\ LET f == Top(t)
           webhook == env[WebhookVar(f.flow)]
       IN  IF Truthy(webhook)
           THEN /\ tasks' = Goto(t, [f EXCEPT !.pc = "webhookFetch"])
                /\ ret' = ret
                /\ trace' = Emit(t, <<NetEv("webhook",
                                   [url |-> webhook, source |-> SourceOf(f.flow)])>>)
           ELSE IF Len(BaseUrl) = 0
           THEN /\ tasks' = Pop(t)
                /\ ret' = [ret EXCEPT ![t] =
                              Value([ok |-> FALSE, error |-> "N8N_BASE_URL not set"])]
                /\ trace' = trace
           ELSE /\ tasks' = Goto(t, [f EXCEPT !.pc = "listFetch"])
                /\ ret' = ret
                /\ trace' = Emit(t, <<NetEv("list", [url |-> BaseUrl])>>)
    /\ UNCHANGED <<env, world>>

\* Lines 14-15 (27-28): the webhook POST is answered: return {ok: r.ok, status}.
Trigger_WebhookResolves(t) ==
    /\ At(t, "trigger", "webhookFetch")
    /\ \E status \in Statuses :
          /\ tasks' = Pop(t)
          /\ ret' = [ret EXCEPT ![t] = Value([ok |-> IsOk(status), status |-> status])]
    /\ UNCHANGED <<env, world, trace>>

\* Line 14 (27): the webhook POST rejects, outside any try: the trigger rejects.
Trigger_WebhookRejects(t) ==
    /\ At(t, "trigger", "webhookFetch")
    /\ tasks' = Pop(t)
    /\ ret' = [ret EXCEPT ![t] = Thrown(NetError)]
    /\ UNCHANGED <<env, world, trace>>

\* Mutant: a list without a match is treated as an error of the path: the catch block runs.
Trigger_ListResolves_Raise(t) ==
    /\ At(t, "trigger", "listFetch")
    /\ LET f == Top(t)
           list == world.n8n
           ws == DataOf(list)
           i == SelectWorkflow(f.flow, ws)
       IN  IF list.kind = "notArray" \/ i = 0
           THEN EnterCatch(t, FindError)
           ELSE /\ tasks' = Goto(t, [f EXCEPT !.pc = "runFetch", !.wf = ws[i].id])
                /\ ret' = ret
                /\ trace' = Emit(t, <<NetEv("run", [id |-> ws[i].id])>>)
    /\ UNCHANGED <<env, world>>

\* Lines 20-23 (33-36): the list is parsed; select, then "not found" or POST the run.
Trigger_ListResolves(t) ==
    /\ At(t, "trigger", "listFetch")
    /\ LET f == Top(t)
           list == world.n8n
       IN  IF list.kind = "notArray"
           THEN EnterCatch(t, FindError)
           ELSE LET ws == DataOf(list)
                    i == SelectWorkflow(f.flow, ws)
                IN  IF i = 0
                    THEN /\ tasks' = Pop(t)
                         /\ ret' = [ret EXCEPT ![t] =
                                       Value([ok |-> FALSE, error |-> NotFoundError(f.flow)])]
                         /\ trace' = trace
                    ELSE /\ tasks' = Goto(t, [f EXCEPT !.pc = "runFetch", !.wf = ws[i].id])
                         /\ ret' = ret
                         /\ trace' = Emit(t, <<NetEv("run", [id |-> ws[i].id])>>)
    /\ UNCHANGED <<env, world>>

\* Line 20 (33): the list GET rejects, or r.json() throws: the catch block runs.
Trigger_ListRejects(t) ==
    /\ At(t, "trigger", "listFetch")
    /\ \E e \in {NetError, JsonError} : EnterCatch(t, e)
    /\ UNCHANGED <<env, world>>

\* Lines 23-24 (36-37): the run POST is answered: return {ok, status, workflowId}.
Trigger_RunResolves(t) ==
    /\ At(t, "trigger", "runFetch")
    /\ \E status \in Statuses :
          /\ tasks' = Pop(t)
          /\ ret' = [ret EXCEPT ![t] = Value([ok |-> IsOk(status), status |-> status,
                                               workflowId |-> Top(t).wf])]
    /\ UNCHANGED <<env, world, trace>>

\* Line 23 (36): the run POST rejects: the catch block runs.
Trigger_RunRejects(t) ==
    /\ At(t, "trigger", "runFetch")
    /\ EnterCatch(t, NetError)
    /\ UNCHANGED <<env, world>>

\* Lines 27-28 (40-41): sendOpsMessage settled: return {ok:false, error}, or its
\* rejection leaves the catch block and rejects the trigger.
Trigger_CatchNotifySettles(t) ==
    /\ At(t, "trigger", "catchNotify")
    /\ Settled(t)
    /\ tasks' = Pop(t)
    /\ ret' = [ret EXCEPT ![t] =
                  IF ret[t].kind = "throw" THEN ret[t]
                  ELSE Value([ok |-> FALSE, error |-> StringOf(Top(t).err)])]
    /\ UNCHANGED <<env, world, trace>>

(***************************************************************************)
(* worker.js: runOnce()                                                    *)
(* frame [fn, pc, results]; results is the CycleReport as Object.entries   *)
(* gives it: a sequence of <<flow name, result>> in insertion order.       *)
(***************************************************************************)
RunOnceFrame == [fn |-> "runOnce", pc |-> "start", results |-> <<>>]

\* .catch((e) => ({ ok: false, error: String(e) })) around a trigger's promise
CaughtResult(r) ==
    IF r.kind = "throw" THEN [ok |-> FALSE, error |-> StringOf(r.val)] ELSE r.val

\* Mutant: every entry is reported, failing or not.
Failures_All(results) == results

\* Object.entries(results).filter(([, r]) => !r.ok)
Failures(results) == SelectSeq(results, LAMBDA p : ~p[2].ok)

CycleHead == "Worker cycle had failures: "

\* Lines 25-26: results = {}; await triggerReiFlow()
RunOnce_Start(t) ==
    /\ At(t, "runOnce", "start")
    /\ tasks' = Call(t, [Top(t) EXCEPT !.pc = "awaitRei"], TriggerFrame("rei"))
    /\ ret' = [ret EXCEPT ![t] = NoRet]
    /\ trace' = Emit(t, <<CallEv("trigger", TriggerFrame("rei"))>>)
    /\ UNCHANGED <<env, world>>

\* Mutant: no .catch on the REI trigger's promise: its rejection rejects runOnce.
RunOnce_ReiSettles_FailFast(t) ==
    /\ At(t, "runOnce", "awaitRei")
    /\ Settled(t)
    /\ IF ret[t].kind = "throw"
       THEN /\ tasks' = Pop(t)
            /\ UNCHANGED <<ret, trace>>
       ELSE /\ tasks' = Call(t, [Top(t) EXCEPT !.pc = "awaitGovcon",
                                               !.results = <<<<"rei", ret[t].val>>>>],
                             TriggerFrame("govcon"))
            /\ ret' = [ret EXCEPT ![t] = NoRet]
            /\ trace' = Emit(t, <<CallEv("trigger", TriggerFrame("govcon"))>>)
    /\ UNCHANGED <<env, world>>

\* Mutant: results is shared by the cycles: results.rei is what any settled call left.
RunOnce_ReiSettles_Shared(t) ==
    /\ At(t, "runOnce", "awaitRei")
    /\ Settled(t)
    /\ \E u \in DOMAIN tasks :
          /\ Settled(u)
          /\ tasks' = Call(t, [Top(t) EXCEPT !.pc = "awaitGovcon",
                                             !.results = <<<<"rei", CaughtResult(ret[u])>>>>],
                           TriggerFrame("govcon"))
    /\ ret' = [ret EXCEPT ![t] = NoRet]
    /\ trace' = Emit(t, <<CallEv("trigger", TriggerFrame("govcon"))>>)
    /\ UNCHANGED <<env, world>>

\* Lines 26-27: results.rei is set; await triggerGovConFlow()
RunOnce_ReiSettles(t) ==
    /\ At(t, "runOnce", "awaitRei")
    /\ Settled(t)
    /\ tasks' = Call(t, [Top(t) EXCEPT !.pc = "awaitGovcon",
                                       !.results = <<<<"rei", CaughtResult(ret[t])>>>>],
                     TriggerFrame("govcon"))
    /\ ret' = [ret EXCEPT ![t] = NoRet]
    /\ trace' = Emit(t, <<CallEv("trigger", TriggerFrame("govcon"))>>)
    /\ UNCHANGED <<env, world>>

\* Lines 27-32: results.govcon is set; log; on any failure await sendOpsMessage(...)
RunOnce_GovconSettles(t) ==
    /\ At(t, "runOnce", "awaitGovcon")
    /\ Settled(t)
    /\ LET results == Append(Top(t).results, <<"govcon", CaughtResult(ret[t])>>)
           failures == Failures(results)
           msg == [typ |-> "string", head |-> CycleHead, body |-> failures]
       IN  IF Len(failures) > 0
           THEN /\ tasks' = Call(t, [Top(t) EXCEPT !.pc = "awaitNotify", !.results = results],
                                 SendOpsFrame(msg, [webhookUrl |-> Unset]))
                /\ ret' = [ret EXCEPT ![t] = NoRet]
                /\ trace' = Emit(t, <<LogEv("worker cycle complete", results),
                                      CallEv("sendOpsMessage", msg)>>)
           ELSE /\ tasks' = Pop(t)
                /\ ret' = [ret EXCEPT ![t] = Value(Undefined)]
                /\ trace' = Emit(t, <<LogEv("worker cycle complete", results)>>)
    /\ UNCHANGED <<env, world>>

\* Lines 31-33: the aggregated notification settled; its rejection rejects runOnce.
RunOnce_NotifySettles(t) ==
    /\ At(t, "runOnce", "awaitNotify")
    /\ Settled(t)
    /\ tasks' = Pop(t)
    /\ ret' = [ret EXCEPT ![t] =
                  IF ret[t].kind = "throw" THEN ret[t] ELSE Value(Undefined)]
    /\ UNCHANGED <<env, world, trace>>

(***************************************************************************)
(* airtable_utils.js, twilio_utils.js: testAuth({timeoutMs})               *)
(* frame [fn, pc, svc, timeoutMs, timer, aborted]                          *)
(***************************************************************************)
Services == {"airtable", "twilio"}

RequiredKeys(svc) ==
    IF svc = "airtable" THEN <<"AIRTABLE_API_KEY", "AIRTABLE_BASE_ID">>
    ELSE <<"TWILIO_ACCOUNT_SID", "TWILIO_AUTH_TOKEN">>

MissingHead(svc) ==
    IF svc = "airtable" THEN "Missing env for Airtable: " ELSE "Missing env for Twilio: "
FailedAuthLog(svc) ==
    IF svc = "airtable" THEN "Airtable testAuth failed" ELSE "Twilio testAuth failed"

TestAuthFrame(svc, timeoutMs) ==
    [fn |-> "testAuth", pc |-> "start", svc |-> svc, timeoutMs |-> timeoutMs,
     timer |-> "none", aborted |-> FALSE]

\* Mutant: a blank value counts as present.
GetMissingEnv_NoTrim(keys) == SelectSeq(keys, LAMBDA k : ~Truthy(env[k]))

\* keys.filter((k) => !process.env[k] || String(process.env[k]).trim() === '')
GetMissingEnv(keys) ==
    SelectSeq(keys, LAMBDA k : ~Truthy(env[k]) \/ Trim(env[k].val) = <<>>)

\* What the client library rejects with: a network failure, or the HTTP status of a
\* non-2xx answer carried inside the error object.
ApiErrors(svc) ==
    {[name |-> "Error", message |-> "connect ETIMEDOUT", status |-> 0]} \cup
    {[name |-> IF svc = "airtable" THEN "AirtableError" ELSE "RestException",
      message |-> "request failed", status |-> s] : s \in {s \in Statuses : ~IsOk(s)}}

\* What the external call resolves to.
ApiAnswers(svc) ==
    IF svc = "airtable"
    THEN {[ok |-> TRUE, table |-> "KPI_Log", count |-> n] : n \in 0..1}
    ELSE {[ok |-> TRUE, accountSid |-> "AC1", status |-> st] : st \in {"active", "suspended"}}

\* Lines 19-26 (airtable), 18-24 (twilio): the client getter throws on missing env and
\* the catch returns; else the controller and timer are made and the call is issued.
TestAuth_Start(t) ==
    /\ At(t, "testAuth", "start")
    /\ LET f == Top(t)
           missing == GetMissingEnv(RequiredKeys(f.svc))
           err == [name |-> "Error", message |-> MissingHead(f.svc) \o Join(missing)]
           r == [ok |-> FALSE, error |-> StringOf(err),
                 missing |-> GetMissingEnv(RequiredKeys(f.svc))]
       IN  IF Len(missing) > 0
           THEN /\ tasks' = Pop(t)
                /\ ret' = [ret EXCEPT ![t] = Value(r)]
                /\ trace' = Emit(t, <<LogEv(FailedAuthLog(f.svc), StringOf(err))>>)
           ELSE /\ tasks' = Goto(t, [f EXCEPT !.pc = "call", !.timer = "armed"])
                /\ ret' = ret
                /\ trace' = Emit(t, <<NetEv(f.svc, "auth check")>>)
    /\ UNCHANGED <<env, world>>

\* Line 23 (22): setTimeout(() => controller.abort(), timeoutMs) fires: the controller
\* is aborted; its signal was handed to no call.
TestAuth_TimerFires(t) ==
    /\ At(t, "testAuth", "call")
    /\ Top(t).timer = "armed"
    /\ tasks' = Goto(t, [Top(t) EXCEPT !.timer = "fired", !.aborted = TRUE])
    /\ UNCHANGED <<env, world, ret, trace>>

\* Lines 24-28 (24-26): the call resolves: clearTimeout, return {ok:true, ...}.
TestAuth_CallResolves(t) ==
    /\ At(t, "testAuth", "call")
    /\ \E r \in ApiAnswers(Top(t).svc) :
          /\ tasks' = Pop(t)
          /\ ret' = [ret EXCEPT ![t] = Value(r)]
    /\ UNCHANGED <<env, world, trace>>

\* Lines 29-33 (27-31): the call rejects: log, return {ok:false, error, missing}.
TestAuth_CallRejects(t) ==
    /\ At(t, "testAuth", "call")
    /\ \E e \in ApiErrors(Top(t).svc) :
          /\ tasks' = Pop(t)
          /\ ret' = [ret EXCEPT ![t] =
                        Value([ok |-> FALSE, error |-> StringOf(e),
                               missing |-> GetMissingEnv(RequiredKeys(Top(t).svc))])]
          /\ trace' = Emit(t, <<RespEv(Top(t).svc, e),
                                LogEv(FailedAuthLog(Top(t).svc), StringOf(e))>>)
    /\ UNCHANGED <<env, world>>

(***************************************************************************)
(* govcon_subtrap.js: pollGovConFeed({limit})                              *)
(* frame [fn, pc, limit]                                                   *)
(***************************************************************************)
PollFrame(limit) == [fn |-> "pollGovConFeed", pc |-> "start", limit |-> limit]

\* Line 6, 14-15: parser.parse(xml) of an XMLParser built without the isArray option.
\* What json.feed.entry is: undefined when the body holds no entry element, the entry
\* itself (an object) when it holds exactly one, an array when it holds two or more.
EntryShape(feed) ==
    IF feed.kind # "atom" \/ Len(feed.entries) = 0 THEN "undefined"
    ELSE IF Len(feed.entries) = 1 THEN "object"
    ELSE "array"

\* What calling .slice on a value that is no array throws.
SliceError == [name |-> "TypeError", message |-> "entries.slice is not a function"]

\* json?.feed?.entry || []   (a body with no feed element gives the empty list)
EntriesOf(feed) == IF feed.kind = "atom" THEN feed.entries ELSE <<>>

\* entries.slice(0, limit).map((e) => ({ title: e.title, id: e.id }))
SampleOf(entries, limit) ==
    [i \in 1..(IF limit < Len(entries) THEN limit ELSE Len(entries)) |->
        [title |-> entries[i].title, id |-> entries[i].id]]

\* Lines 9-11: the GET of the feed is issued.
PollFeed_Start(t) ==
    /\ At(t, "pollGovConFeed", "start")
    /\ tasks' = Goto(t, [Top(t) EXCEPT !.pc = "fetch"])
    /\ trace' = Emit(t, <<NetEv("feed", "GET")>>)
    /\ UNCHANGED <<env, world, ret>>

\* Lines 11-13: the GET is answered: non-2xx returns {ok:false, status}, else read the body.
PollFeed_FetchResolves(t) ==
    /\ At(t, "pollGovConFeed", "fetch")
    /\ \E status \in Statuses :
          /\ IF ~IsOk(status)
             THEN /\ tasks' = Pop(t)
                  /\ ret' = [ret EXCEPT ![t] = Value([ok |-> FALSE, status |-> status])]
             ELSE /\ tasks' = Goto(t, [Top(t) EXCEPT !.pc = "text"])
                  /\ ret' = ret
          /\ trace' = Emit(t, <<RespEv("feed", [status |-> status])>>)
    /\ UNCHANGED <<env, world>>

\* Lines 11-13, 18-20: the GET or the body read rejects: log, return {ok:false, error}.
PollFeed_Rejects(t) ==
    /\ \/ At(t, "pollGovConFeed", "fetch")
       \/ At(t, "pollGovConFeed", "text")
    /\ tasks' = Pop(t)
    /\ ret' = [ret EXCEPT ![t] = Value([ok |-> FALSE, error |-> StringOf(NetError)])]
    /\ trace' = Emit(t, <<LogEv("GovCon feed poll failed", StringOf(NetError))>>)
    /\ UNCHANGED <<env, world>>

\* Lines 13-20: the body is parsed: return {ok:true, count, sample}; a lone entry is no
\* array, so entries.slice throws into the catch: log, return {ok:false, error}.
PollFeed_TextResolves(t) ==
    /\ At(t, "pollGovConFeed", "text")
    /\ LET entries == EntriesOf(world.feed)
       IN  IF EntryShape(world.feed) = "object"
           THEN /\ tasks' = Pop(t)
                /\ ret' = [ret EXCEPT ![t] =
                              Value([ok |-> FALSE, error |-> StringOf(SliceError)])]
                /\ trace' = Emit(t, <<LogEv("GovCon feed poll failed", StringOf(SliceError))>>)
           ELSE /\ tasks' = Pop(t)
                /\ ret' = [ret EXCEPT ![t] =
                              Value([ok |-> TRUE, count |-> Len(entries),
                                     sample |-> SampleOf(entries, Top(t).limit)])]
                /\ trace' = trace
    /\ UNCHANGED <<env, world>>

(***************************************************************************)
(* rei_dispo.js (web application): the handlers of the ops routes          *)
(* frame [fn, pc, route, query]                                            *)
(***************************************************************************)
TestRoutes == {"POST /ops/test/discord", "GET /ops/test/airtable", "GET /ops/test/twilio"}
TriggerRoutes == {"POST /ops/trigger/rei", "POST /ops/trigger/govcon"}
SampleRoute == "GET /ops/govcon/sample"
Routes == TestRoutes \cup TriggerRoutes \cup {SampleRoute}

HandlerFrame(route, query) == [fn |-> "handler", pc |-> "start", route |-> route, query |-> query]

\* res.status(status).json(body)
HttpEv(status, body) == [kind |-> "http", what |-> "response", data |-> [status |-> status, body |-> body]]

TestMessage ==
    [typ |-> "string", head |-> "KRIZZY OPS test via /ops/test/discord", body |-> ""]

Digits == <<"0", "1", "2", "3", "4", "5", "6", "7", "8", "9">>
DigitValue(c) == (CHOOSE i \in 1..Len(Digits) : Digits[i] = c) - 1

\* Number(s) of a string of decimal digits
RECURSIVE NumberOf(_)
NumberOf(cs) ==
    IF Len(cs) = 0 THEN 0
    ELSE 10 * NumberOf(SubSeq(cs, 1, Len(cs) - 1)) + DigitValue(cs[Len(cs)])

\* Number(req.query.limit || 5)
LimitOf(query) == IF Truthy(query.limit) THEN NumberOf(query.limit.val) ELSE 5

\* The operation a route awaits.
Operation(route, query) ==
    CASE route = "POST /ops/test/discord" -> SendOpsFrame(TestMessage, [webhookUrl |-> Unset])
      [] route = "GET /ops/test/airtable" -> TestAuthFrame("airtable", 2500)
      [] route = "GET /ops/test/twilio" -> TestAuthFrame("twilio", 2500)
      [] route = "POST /ops/trigger/rei" -> TriggerFrame("rei")
      [] route = "POST /ops/trigger/govcon" -> TriggerFrame("govcon")
      [] route = SampleRoute -> PollFrame(LimitOf(query))

\* The message logged by a route's catch block.
HandlerLog(route) ==
    CASE route = "POST /ops/test/discord" -> "discord test failed"
      [] route = "GET /ops/test/airtable" -> "airtable test failed"
      [] route = "GET /ops/test/twilio" -> "twilio test failed"
      [] route = "POST /ops/trigger/rei" -> "trigger rei failed"
      [] route = "POST /ops/trigger/govcon" -> "trigger govcon failed"
      [] route = SampleRoute -> "govcon sample failed"

\* Mutant: every answer has status 200.
Answer_Ok(route, result) == HttpEv(200, result)

\* Lines 99-100: the discord test discards the notifier's result: res.json({ ok: true }).
\* Lines 110, 120, 130, 140, 150: res.status(result.ok ? 200 : 500).json(result)
Answer(route, result) ==
    IF route = "POST /ops/test/discord"
    THEN HttpEv(200, [ok |-> TRUE])
    ELSE HttpEv(IF result.ok THEN 200 ELSE 500, result)

\* The call of an operation, as the trace records it.
CallOf(op) == IF op.fn = "sendOpsMessage" THEN CallEv(op.fn, op.message) ELSE CallEv(op.fn, op)

\* The request arrives: the handler awaits its operation.
Handler_Start(t) ==
    /\ At(t, "handler", "start")
    /\ LET op == Operation(Top(t).route, Top(t).query)
       IN  /\ tasks' = Call(t, [Top(t) EXCEPT !.pc = "await"], op)
           /\ trace' = Emit(t, <<CallOf(op)>>)
    /\ ret' = [ret EXCEPT ![t] = NoRet]
    /\ UNCHANGED <<env, world>>

\* The operation settled: answer with its result, or from the catch block with 500.
Handler_Settles(t) ==
    /\ At(t, "handler", "await")
    /\ Settled(t)
    /\ tasks' = Pop(t)
    /\ ret' = [ret EXCEPT ![t] = Value(Undefined)]
    /\ trace' = Emit(t,
          IF ret[t].kind = "throw"
          THEN <<LogEv(HandlerLog(Top(t).route), ret[t].val),
                 HttpEv(500, [ok |-> FALSE, error |-> StringOf(ret[t].val)])>>
          ELSE <<Answer(Top(t).route, ret[t].val)>>)
    /\ UNCHANGED <<env, world>>

(***************************************************************************)
(* worker.js: startWorker, startupChecks, the two timers, the crash        *)
(* handlers and the handler of a failed start.                             *)
(*                                                                         *)
(* worker = [phase, iteration, cycles, crashes, pending, code]             *)
(*   phase     "starting" until the timers are installed, then "running";  *)
(*             "failed" once startWorker has rejected; "exited" after      *)
(*             process.exit                                                *)
(*   iteration the heartbeat counter (line 38)                             *)
(*   cycles    cycle ticks fired so far                                    *)
(*   crashes   crash events emitted so far                                 *)
(*   pending   rejections nothing handles, not yet emitted to the handler  *)
(*   code      the exit status given to process.exit                       *)
(***************************************************************************)
\* Mutant: the feed is not polled at startup.
Probes_AuthOnly == <<"airtable", "twilio">>

\* Lines 17-19: the startup probes, in the order of the call.
Probes == <<"airtable", "twilio", "feed">>
\* The holder of what the callbacks of the two timers log themselves.
Timers == "timers"
Fail == "fail"
CycleId(n) == "cycle" \o ToString(n)
CrashId(n) == "crash" \o ToString(n)

IsCycle(t) == Len(trace[t]) > 0 /\ Root(t).fn = "cycle"
IsCrash(t) == Len(trace[t]) > 0 /\ Root(t).fn = "crashHandler"

\* The process has not called process.exit.
Alive == worker.phase \in {"starting", "running", "failed"}
\* setInterval has been called for both timers (lines 40-52) and the process lives.
TimersArmed == worker.phase = "running"

StartWorkerFrame == [fn |-> "startWorker", pc |-> "start"]
StartupChecksFrame == [fn |-> "startupChecks", pc |-> "start"]
CycleFrame == [fn |-> "cycle", pc |-> "await"]
CrashFrame(kind, err) == [fn |-> "crashHandler", pc |-> "start", kind |-> kind, err |-> err]
StartFailedFrame(err) == [fn |-> "startFailed", pc |-> "start", err |-> err]

\* What an exception raised outside the modelled calls looks like.
StartError == [name |-> "Error", message |-> "start failed"]
CrashError == [name |-> "Error", message |-> "crash"]
CrashKinds == {"uncaughtException", "unhandledRejection"}

\* A function extended by one more task, and one without the tasks ts.
With(f, t, v) == (t :> v) @@ f
Without(f, ts) == [x \in DOMAIN f \ ts |-> f[x]]

\* The run has room for one more timer tick or crash event.
InBudget == worker.cycles + worker.iteration + worker.crashes + Len(worker.pending) < MaxEvents

\* Mutant: the heartbeat waits for the cycles under way to end.
HeartbeatTimer_Idle == TimersArmed /\ ~\E t \in DOMAIN tasks : IsCycle(t)

\* Mutant: a cycle tick is skipped while a cycle is under way.
CycleTimer_Idle == TimersArmed /\ ~\E t \in DOMAIN tasks : IsCycle(t)

\* Mutant: the cycle timer fires once.
CycleTimer_Once == TimersArmed /\ worker.cycles = 0

\* The heartbeat timer and the cycle timer fire whenever they are armed.
HeartbeatTimer == TimersArmed
CycleTimer == TimersArmed

\* Lines 17-19: the frame each startup probe starts with.
ProbeFrame(p) ==
    CASE p = "airtable" -> TestAuthFrame("airtable", 2000)
      [] p = "twilio" -> TestAuthFrame("twilio", 2000)
      [] p = "feed" -> PollFrame(1)

\* What Promise.allSettled reports for a settled promise.
Outcome(r) ==
    IF r.kind = "throw" THEN [status |-> "rejected", reason |-> r.val]
    ELSE [status |-> "fulfilled", value |-> r.val]

\* Lines 36-37: log, call startupChecks.
StartWorker_Start(t) ==
    /\ Alive
    /\ At(t, "startWorker", "start")
    /\ tasks' = Call(t, [Top(t) EXCEPT !.pc = "awaitChecks"], StartupChecksFrame)
    /\ ret' = [ret EXCEPT ![t] = NoRet]
    /\ trace' = Emit(t, <<LogEv("worker starting", "")>>)
    /\ UNCHANGED <<env, world, worker>>

\* Lines 16-20: the three probes are called one after the other, then their promises are
\* awaited together.
StartupChecks_Start(t) ==
    /\ Alive
    /\ At(t, "startupChecks", "start")
    /\ tasks' = [p \in {Probes[i] : i \in DOMAIN Probes} |-> <<ProbeFrame(p)>>]
                    @@ Goto(t, [Top(t) EXCEPT !.pc = "allSettled"])
    /\ ret' = [p \in {Probes[i] : i \in DOMAIN Probes} |-> NoRet] @@ ret
    /\ trace' = [p \in {Probes[i] : i \in DOMAIN Probes} |-> <<RootEv(ProbeFrame(p))>>]
                    @@ Emit(t, [i \in DOMAIN Probes |-> CallOf(ProbeFrame(Probes[i]))])
    /\ UNCHANGED <<env, world, worker>>

\* Mutant: startupChecks returns as soon as one probe has settled.
StartupChecks_Settles_Any(t) ==
    /\ Alive
    /\ At(t, "startupChecks", "allSettled")
    /\ \E i \in DOMAIN Probes : Finished(Probes[i])
    /\ LET checks == [i \in DOMAIN Probes |-> Outcome(ret[Probes[i]])]
           done == {Probes[i] : i \in DOMAIN Probes}
       IN  /\ trace' = Without(Emit(t, <<LogEv("worker startup checks complete", checks)>>), done)
           /\ tasks' = Without(Pop(t), done)
           /\ ret' = Without([ret EXCEPT ![t] = Value(Undefined)], done)
    /\ UNCHANGED <<env, world, worker>>

\* Lines 16-22: every probe's promise has settled: log the outcomes, return.  The settled
\* probes are of no further use to the process and leave the state.
StartupChecks_Settles(t) ==
    /\ Alive
    /\ At(t, "startupChecks", "allSettled")
    /\ \A i \in DOMAIN Probes : Finished(Probes[i])
    /\ LET checks == [i \in DOMAIN Probes |-> Outcome(ret[Probes[i]])]
           done == {Probes[i] : i \in DOMAIN Probes}
       IN  /\ trace' = Without(Emit(t, <<LogEv("worker startup checks complete", checks)>>), done)
           /\ tasks' = Without(Pop(t), done)
           /\ ret' = Without([ret EXCEPT ![t] = Value(Undefined)], done)
    /\ UNCHANGED <<env, world, worker>>

\* Lines 37-56: startupChecks returned: the counter is 0, both timers are installed,
\* startWorker parks in its keep-alive loop.
StartWorker_InstallTimers(t) ==
    /\ Alive
    /\ At(t, "startWorker", "awaitChecks")
    /\ Settled(t) /\ ret[t].kind = "value"
    /\ tasks' = Goto(t, [Top(t) EXCEPT !.pc = "sleep"])
    /\ ret' = [ret EXCEPT ![t] = NoRet]
    /\ trace' = With(trace, Timers, <<>>)
    /\ worker' = [worker EXCEPT !.phase = "running", !.iteration = 0]
    /\ UNCHANGED <<env, world>>

\* Lines 36-37, 70-71: an exception escapes startWorker before the timers are installed
\* (thrown by a statement outside the awaited probes): startWorker's promise rejects and
\* the catch callback of line 71 is called.
StartWorker_Rejects(t) ==
    /\ Alive
    /\ \/ At(t, "startWorker", "start")
       \/ At(t, "startupChecks", "allSettled") /\ \A i \in DOMAIN Probes : Finished(Probes[i])
    /\ tasks' = With([tasks EXCEPT ![t] = <<>>], Fail, <<StartFailedFrame(StartError)>>)
    /\ ret' = With([ret EXCEPT ![t] = Thrown(StartError)], Fail, NoRet)
    /\ trace' = With(trace, Fail, <<RootEv(StartFailedFrame(StartError))>>)
    /\ worker' = [worker EXCEPT !.phase = "failed"]
    /\ UNCHANGED <<env, world>>

\* Lines 72-73: log the failure, await the notification.
StartFailed_Start(t) ==
    /\ Alive
    /\ At(t, "startFailed", "start")
    /\ LET msg == [typ |-> "string", head |-> "Worker failed to start: ",
                   body |-> StringOf(Top(t).err)]
       IN  /\ tasks' = Call(t, [Top(t) EXCEPT !.pc = "notify"],
                            SendOpsFrame(msg, [webhookUrl |-> Unset]))
           /\ trace' = Emit(t, <<LogEv("worker failed to start", StringOf(Top(t).err)),
                                 CallEv("sendOpsMessage", msg)>>)
    /\ ret' = [ret EXCEPT ![t] = NoRet]
    /\ UNCHANGED <<env, world, worker>>

\* Lines 73-74: the notification returned: process.exit(1).  When it rejected, the
\* callback's promise rejects with nothing to handle it, and line 74 is not reached.
StartFailed_NotifySettles(t) ==
    /\ Alive
    /\ At(t, "startFailed", "notify")
    /\ Settled(t)
    /\ tasks' = Pop(t)
    /\ IF ret[t].kind = "throw"
       THEN /\ worker' = [worker EXCEPT !.pending = Append(@, ret[t].val)]
            /\ trace' = trace
       ELSE /\ worker' = [worker EXCEPT !.phase = "exited", !.code = 1]
            /\ trace' = Emit(t, <<CallEv("process.exit", 1)>>)
    /\ UNCHANGED <<env, world, ret>>

\* Lines 40-46: the cycle timer fires: the callback calls runOnce inside its try block.
\* Nothing looks at whether an earlier cycle is still running.
CycleTick ==
    /\ CycleTimer
    /\ worker.cycles < MaxCycles /\ InBudget
    /\ LET t == CycleId(worker.cycles + 1)
       IN  /\ tasks' = With(tasks, t, <<RunOnceFrame, CycleFrame>>)
           /\ ret' = With(ret, t, NoRet)
           /\ trace' = With(trace, t, <<RootEv(CycleFrame)>>)
    /\ worker' = [worker EXCEPT !.cycles = @ + 1]
    /\ UNCHANGED <<env, world>>

\* Lines 41-45: runOnce settled: its rejection is caught and logged, and the callback
\* ends.  The ended callback is of no further use to the process and leaves the state.
Cycle_Settles(t) ==
    /\ Alive
    /\ At(t, "cycle", "await")
    /\ Settled(t)
    /\ tasks' = Without(tasks, {t})
    /\ ret' = Without(ret, {t})
    /\ trace' = Without(IF ret[t].kind = "throw"
                        THEN Emit(Timers, <<LogEv("runOnce failed", StringOf(ret[t].val))>>)
                        ELSE trace, {t})
    /\ UNCHANGED <<env, world, worker>>

\* Mutant: the tick leaves the counter as it is.
Incremented_Same(n) == n

\* Line 50: iteration += 1
Incremented(n) == n + 1

\* Lines 49-52: the heartbeat timer fires: count and log; nothing is awaited.
HeartbeatTick ==
    /\ HeartbeatTimer
    /\ worker.iteration < MaxBeats /\ InBudget
    /\ worker' = [worker EXCEPT !.iteration = Incremented(@)]
    /\ trace' = Emit(Timers, <<LogEv("worker heartbeat", [iteration |-> worker'.iteration])>>)
    /\ UNCHANGED <<env, world, tasks, ret>>

\* An error nothing handles arises outside the modelled calls while the timers run.
Process_Throws ==
    /\ TimersArmed
    /\ worker.crashes + Len(worker.pending) < MaxCrashes /\ InBudget
    /\ worker' = [worker EXCEPT !.pending = Append(@, CrashError)]
    /\ UNCHANGED <<env, world, tasks, ret, trace>>

\* Lines 61, 65: the process emits uncaughtException or unhandledRejection for a pending
\* error: the registered handler is called with it.
Crash_Emit ==
    /\ Alive
    /\ Len(worker.pending) > 0
    /\ worker.crashes < MaxCrashes
    /\ \E kind \in CrashKinds :
          LET t == CrashId(worker.crashes + 1)
              f == CrashFrame(kind, Head(worker.pending))
          IN  /\ tasks' = With(tasks, t, <<f>>)
              /\ ret' = With(ret, t, NoRet)
              /\ trace' = With(trace, t, <<RootEv(f)>>)
    /\ worker' = [worker EXCEPT !.crashes = @ + 1, !.pending = Tail(@)]
    /\ UNCHANGED <<env, world>>

\* Mutant: the handler logs the error and ends.
Crash_Start_LogOnly(t) ==
    /\ Alive
    /\ At(t, "crashHandler", "start")
    /\ tasks' = Pop(t)
    /\ trace' = Emit(t, <<LogEv(Top(t).kind, StringOf(Top(t).err))>>)
    /\ UNCHANGED <<env, world, ret, worker>>

\* Lines 62-63, 66-67: log the error, await the notification.
Crash_Start(t) ==
    /\ Alive
    /\ At(t, "crashHandler", "start")
    /\ LET msg == [typ |-> "string", head |-> "Worker " \o Top(t).kind \o ": ",
                   body |-> StringOf(Top(t).err)]
       IN  /\ tasks' = Call(t, [Top(t) EXCEPT !.pc = "notify"],
                            SendOpsFrame(msg, [webhookUrl |-> Unset]))
           /\ trace' = Emit(t, <<LogEv(Top(t).kind, StringOf(Top(t).err)),
                                 CallEv("sendOpsMessage", msg)>>)
    /\ ret' = [ret EXCEPT ![t] = NoRet]
    /\ UNCHANGED <<env, world, worker>>

\* Lines 63-64, 67-68: the notification settled and the handler ends; when it rejected,
\* the handler's promise rejects with nothing to handle it.  The ended handler leaves the
\* state.
Crash_NotifySettles(t) ==
    /\ Alive
    /\ At(t, "crashHandler", "notify")
    /\ Settled(t)
    /\ tasks' = Without(tasks, {t})
    /\ ret' = Without(ret, {t})
    /\ trace' = Without(trace, {t})
    /\ worker' = IF ret[t].kind = "throw"
                 THEN [worker EXCEPT !.pending = Append(@, ret[t].val)]
                 ELSE worker
    /\ UNCHANGED <<env, world>>

(***************************************************************************)
(* Inputs: environments, external data, and the operation invoked.         *)
(***************************************************************************)
EnvVars ==
    {"DISCORD_WEBHOOK_OPS", "N8N_REI_DISPO_WEBHOOK_URL", "N8N_GOVCON_SUBTRAP_WEBHOOK_URL",
     "N8N_BASE_URL", "AIRTABLE_API_KEY", "AIRTABLE_BASE_ID", "TWILIO_ACCOUNT_SID",
     "TWILIO_AUTH_TOKEN"}

NoEnv == [k \in EnvVars |-> Unset]

\* Values of a URL variable: unset, empty, set.
UrlValues(u) == {Unset, Str(<<>>), Str(u)}
\* Values of N8N_BASE_URL: also a bare slash and a URL ending in a slash.
BaseUrlValues == {Unset, Str(<<>>), Str(<<"/">>), Str(<<"n">>), Str(<<"n", "/">>)}
\* Values of a credential: unset, empty, blank, set, set with spaces around it.
CredValues == {Unset, Str(<<>>), Str(<<" ">>), Str(<<"k">>), Str(<<" ", "k", " ">>)}

\* The workflows an n8n instance may hold.
Workflows ==
    {[id |-> 1, hasName |-> TRUE, name |-> <<"U", "n", "r", "e", "l", "a", "t", "e", "d">>],
     [id |-> 2, hasName |-> TRUE, name |-> <<"O", "L", "D", "_">> \o REI],
     [id |-> 3, hasName |-> TRUE, name |-> REI_DISPO \o <<"_", "A">>],
     [id |-> 4, hasName |-> TRUE, name |-> GOVCON \o <<"_", "N", "I", "G", "H", "T", "L", "Y">>],
     [id |-> 5, hasName |-> TRUE, name |-> <<"X", "_">> \o SUBTRAP],
     [id |-> 6, hasName |-> TRUE, name |-> <<"r", "e", "i", "_", "d", "i", "s", "p", "o">>],
     [id |-> 7, hasName |-> FALSE, name |-> <<>>]}

ListsUpTo(n) == UNION {[1..k -> Workflows] : k \in 0..n}

\* Parsed bodies of the workflow-list endpoint: null, an object without data, an object
\* whose data is no array, an object whose data is a list.
ListBodies(n) ==
    {[kind |-> "null", data |-> <<>>], [kind |-> "nodata", data |-> <<>>],
     [kind |-> "notArray", data |-> <<>>]} \cup
    {[kind |-> "list", data |-> l] : l \in ListsUpTo(n)}

FeedEntry(i) == [title |-> i, id |-> 100 + i, updated |-> 2026]
Feeds ==
    {[kind |-> "other", entries |-> <<>>]} \cup
    {[kind |-> "atom", entries |-> [i \in 1..m |-> FeedEntry(i)]] : m \in 0..MaxFeed}

NoWorld ==
    [n8n |-> [kind |-> "null", data |-> <<>>], feed |-> [kind |-> "other", entries |-> <<>>],
     statuses |-> AllStatuses, bodies |-> AllBodies]

Messages ==
    {[typ |-> "string", head |-> "KRIZZY OPS test", body |-> ""],
     [typ |-> "object", head |-> "", body |-> "payload"]}

Main == "main"

\* The process is not the worker (WORKER_AUTOSTART is 'false', or the web app): no timers.
NoWorker ==
    [phase |-> "none", iteration |-> 0, cycles |-> 0, crashes |-> 0, pending |-> <<>>, code |-> 0]

Start(frame) ==
    /\ tasks = [t \in {Main} |-> <<frame>>]
    /\ ret = [t \in {Main} |-> NoRet]
    /\ trace = [t \in {Main} |-> <<RootEv(frame)>>]
    /\ worker = NoWorker

\* triggerReiFlow() / triggerGovConFlow()
InitTrigger ==
    \E flow \in Flows, w \in UrlValues(<<"w">>), o \in {Unset, Str(<<"v">>)},
       b \in BaseUrlValues, d \in {Unset, Str(<<"d">>)} :
        /\ env = [NoEnv EXCEPT
                     !["N8N_REI_DISPO_WEBHOOK_URL"] = IF flow = "rei" THEN w ELSE o,
                     !["N8N_GOVCON_SUBTRAP_WEBHOOK_URL"] = IF flow = "rei" THEN o ELSE w,
                     !["N8N_BASE_URL"] = b, !["DISCORD_WEBHOOK_OPS"] = d]
        /\ world \in {[NoWorld EXCEPT !.n8n = l] : l \in ListBodies(MaxList)}
        /\ Start(TriggerFrame(flow))

\* sendOpsMessage(message, options)
InitSendOps ==
    \E m \in Messages, o \in UrlValues(<<"o">>), d \in UrlValues(<<"d">>) :
        /\ env = [NoEnv EXCEPT !["DISCORD_WEBHOOK_OPS"] = d]
        /\ world = NoWorld
        /\ Start(SendOpsFrame(m, [webhookUrl |-> o]))

\* runOnce()
InitRunOnce ==
    \E wr \in {Unset, Str(<<"w">>)}, wg \in {Unset, Str(<<"w">>)},
       b \in {Unset, Str(<<"n", "/">>)}, d \in {Unset, Str(<<"d">>)} :
        /\ env = [NoEnv EXCEPT !["N8N_REI_DISPO_WEBHOOK_URL"] = wr,
                               !["N8N_GOVCON_SUBTRAP_WEBHOOK_URL"] = wg,
                               !["N8N_BASE_URL"] = b, !["DISCORD_WEBHOOK_OPS"] = d]
        /\ world \in {[NoWorld EXCEPT !.n8n = l] : l \in ListBodies(1)}
        /\ Start(RunOnceFrame)

\* testAuth({timeoutMs}) of Airtable and of Twilio
InitTestAuth ==
    \E svc \in Services, a \in CredValues, b \in CredValues :
        /\ env = [NoEnv EXCEPT ![RequiredKeys(svc)[1]] = a, ![RequiredKeys(svc)[2]] = b]
        /\ world = NoWorld
        /\ Start(TestAuthFrame(svc, 2000))

\* pollGovConFeed({limit})
InitPollFeed ==
    \E limit \in 0..(MaxFeed + 1) :
        /\ env = NoEnv
        /\ world \in {[NoWorld EXCEPT !.feed = f] : f \in Feeds}
        /\ Start(PollFrame(limit))

\* Values of the limit parameter of a request: absent, empty, a decimal number.
LimitValues == {Unset, Str(<<>>), Str(<<"0">>), Str(<<"2">>), Str(<<"1", "0">>)}

\* A request to one of the ops routes of the web application.
InitHandler ==
    \/ \E d \in UrlValues(<<"d">>) :
          /\ env = [NoEnv EXCEPT !["DISCORD_WEBHOOK_OPS"] = d]
          /\ world = NoWorld
          /\ Start(HandlerFrame("POST /ops/test/discord", [limit |-> Unset]))
    \/ \E svc \in Services, a \in {Unset, Str(<<"k">>)}, b \in {Str(<<" ">>), Str(<<"k">>)} :
          /\ env = [NoEnv EXCEPT ![RequiredKeys(svc)[1]] = a, ![RequiredKeys(svc)[2]] = b]
          /\ world = NoWorld
          /\ Start(HandlerFrame(IF svc = "airtable" THEN "GET /ops/test/airtable"
                                                   ELSE "GET /ops/test/twilio", [limit |-> Unset]))
    \/ \E flow \in Flows, w \in {Unset, Str(<<"w">>)}, b \in {Unset, Str(<<"n">>)},
          d \in {Unset, Str(<<"d">>)} :
          /\ env = [NoEnv EXCEPT ![WebhookVar(flow)] = w, !["N8N_BASE_URL"] = b,
                                 !["DISCORD_WEBHOOK_OPS"] = d]
          /\ world \in {[NoWorld EXCEPT !.n8n = l] : l \in ListBodies(1)}
          /\ Start(HandlerFrame(IF flow = "rei" THEN "POST /ops/trigger/rei"
                                                ELSE "POST /ops/trigger/govcon", [limit |-> Unset]))
    \/ \E l \in LimitValues :
          /\ env = NoEnv
          /\ world \in {[NoWorld EXCEPT !.feed = f] : f \in Feeds}
          /\ Start(HandlerFrame(SampleRoute, [limit |-> l]))

Init ==
    InitTrigger \/ InitSendOps \/ InitRunOnce \/ InitTestAuth \/ InitPollFeed \/ InitHandler

Next ==
    \/ \E t \in DOMAIN tasks : SendOps_Start(t) /\ UNCHANGED worker
    \/ \E t \in DOMAIN tasks : SendOps_FetchResolves(t) /\ UNCHANGED worker
    \/ \E t \in DOMAIN tasks : SendOps_FetchRejects(t) /\ UNCHANGED worker
    \/ \E t \in DOMAIN tasks : SendOps_TextSettles(t) /\ UNCHANGED worker
    \/ \E t \in DOMAIN tasks : Trigger_Start(t) /\ UNCHANGED worker
    \/ \E t \in DOMAIN tasks : Trigger_WebhookResolves(t) /\ UNCHANGED worker
    \/ \E t \in DOMAIN tasks : Trigger_WebhookRejects(t) /\ UNCHANGED worker
    \/ \E t \in DOMAIN tasks : Trigger_ListResolves(t) /\ UNCHANGED worker
    \/ \E t \in DOMAIN tasks : Trigger_ListRejects(t) /\ UNCHANGED worker
    \/ \E t \in DOMAIN tasks : Trigger_RunResolves(t) /\ UNCHANGED worker
    \/ \E t \in DOMAIN tasks : Trigger_RunRejects(t) /\ UNCHANGED worker
    \/ \E t \in DOMAIN tasks : Trigger_CatchNotifySettles(t) /\ UNCHANGED worker
    \/ \E t \in DOMAIN tasks : RunOnce_Start(t) /\ UNCHANGED worker
    \/ \E t \in DOMAIN tasks : RunOnce_ReiSettles(t) /\ UNCHANGED worker
    \/ \E t \in DOMAIN tasks : RunOnce_GovconSettles(t) /\ UNCHANGED worker
    \/ \E t \in DOMAIN tasks : RunOnce_NotifySettles(t) /\ UNCHANGED worker
    \/ \E t \in DOMAIN tasks : TestAuth_Start(t) /\ UNCHANGED worker
    \/ \E t \in DOMAIN tasks : TestAuth_TimerFires(t) /\ UNCHANGED worker
    \/ \E t \in DOMAIN tasks : TestAuth_CallResolves(t) /\ UNCHANGED worker
    \/ \E t \in DOMAIN tasks : TestAuth_CallRejects(t) /\ UNCHANGED worker
    \/ \E t \in DOMAIN tasks : PollFeed_Start(t) /\ UNCHANGED worker
    \/ \E t \in DOMAIN tasks : PollFeed_FetchResolves(t) /\ UNCHANGED worker
    \/ \E t \in DOMAIN tasks : PollFeed_Rejects(t) /\ UNCHANGED worker
    \/ \E t \in DOMAIN tasks : PollFeed_TextResolves(t) /\ UNCHANGED worker
    \/ \E t \in DOMAIN tasks : Handler_Start(t) /\ UNCHANGED worker
    \/ \E t \in DOMAIN tasks : Handler_Settles(t) /\ UNCHANGED worker

\* One invocation of an exported operation, under every environment and every answer of
\* the external systems.
Spec == Init /\ [][Next]_vars

\* Runs of the worker: the environment it is started in, and the statuses the external
\* systems answer with during the run (a request may also fail or stay unanswered).
\*   the Airtable credentials only: the probes differ, the triggers and the notifier
\*   find nothing configured;
\*   the REI webhook only: the trigger's request succeeds, is refused or fails;
\*   the notifier's destination only: every cycle has failures to report.
\* No run sets N8N_BASE_URL: a trigger of the worker returns a result, rejects or stays
\* parked by way of its webhook request, as it does by way of its list and run requests.
WorkerRuns ==
    {[env |-> [NoEnv EXCEPT !["AIRTABLE_API_KEY"] = Str(<<"k">>),
                            !["AIRTABLE_BASE_ID"] = Str(<<"k">>)],
      statuses |-> {200, 500}],
     [env |-> [NoEnv EXCEPT !["N8N_REI_DISPO_WEBHOOK_URL"] = Str(<<"w">>)],
      statuses |-> {200, 500}],
     [env |-> [NoEnv EXCEPT !["DISCORD_WEBHOOK_OPS"] = Str(<<"d">>)],
      statuses |-> {200, 500}]}

\* The feed the worker polls holds two entries; a refused notification has an empty body.
WorkerWorld(statuses) ==
    [NoWorld EXCEPT !.feed = [kind |-> "atom", entries |-> [i \in 1..2 |-> FeedEntry(i)]],
                    !.statuses = statuses, !.bodies = {""}]

\* Lines 70-71: the module is loaded with WORKER_AUTOSTART not 'false': startWorker is called.
InitWorker ==
    /\ \E run \in WorkerRuns :
          /\ env = run.env
          /\ world = WorkerWorld(run.statuses)
    /\ tasks = [t \in {Main} |-> <<StartWorkerFrame>>]
    /\ ret = [t \in {Main} |-> NoRet]
    /\ trace = [t \in {Main} |-> <<RootEv(StartWorkerFrame)>>]
    /\ worker = [NoWorker EXCEPT !.phase = "starting"]

NextWorker ==
    \/ \E t \in DOMAIN tasks : StartWorker_Start(t)
    \/ \E t \in DOMAIN tasks : StartupChecks_Start(t)
    \/ \E t \in DOMAIN tasks : StartupChecks_Settles(t)
    \/ \E t \in DOMAIN tasks : StartWorker_InstallTimers(t)
    \/ \E t \in DOMAIN tasks : StartWorker_Rejects(t)
    \/ \E t \in DOMAIN tasks : StartFailed_Start(t)
    \/ \E t \in DOMAIN tasks : StartFailed_NotifySettles(t)
    \/ CycleTick
    \/ \E t \in DOMAIN tasks : Cycle_Settles(t)
    \/ HeartbeatTick
    \/ Process_Throws
    \/ Crash_Emit
    \/ \E t \in DOMAIN tasks : Crash_Start(t)
    \/ \E t \in DOMAIN tasks : Crash_NotifySettles(t)
    \/ \E t \in DOMAIN tasks : Alive /\ SendOps_Start(t) /\ UNCHANGED worker
    \/ \E t \in DOMAIN tasks : Alive /\ SendOps_FetchResolves(t) /\ UNCHANGED worker
    \/ \E t \in DOMAIN tasks : Alive /\ SendOps_FetchRejects(t) /\ UNCHANGED worker
    \/ \E t \in DOMAIN tasks : Alive /\ SendOps_TextSettles(t) /\ UNCHANGED worker
    \/ \E t \in DOMAIN tasks : Alive /\ Trigger_Start(t) /\ UNCHANGED worker
    \/ \E t \in DOMAIN tasks : Alive /\ Trigger_WebhookResolves(t) /\ UNCHANGED worker
    \/ \E t \in DOMAIN tasks : Alive /\ Trigger_WebhookRejects(t) /\ UNCHANGED worker
    \/ \E t \in DOMAIN tasks : Alive /\ RunOnce_Start(t) /\ UNCHANGED worker
    \/ \E t \in DOMAIN tasks : Alive /\ RunOnce_ReiSettles(t) /\ UNCHANGED worker
    \/ \E t \in DOMAIN tasks : Alive /\ RunOnce_GovconSettles(t) /\ UNCHANGED worker
    \/ \E t \in DOMAIN tasks : Alive /\ RunOnce_NotifySettles(t) /\ UNCHANGED worker
    \/ \E t \in DOMAIN tasks : Alive /\ TestAuth_Start(t) /\ UNCHANGED worker
    \/ \E t \in DOMAIN tasks : Alive /\ TestAuth_TimerFires(t) /\ UNCHANGED worker
    \/ \E t \in DOMAIN tasks : Alive /\ TestAuth_CallResolves(t) /\ UNCHANGED worker
    \/ \E t \in DOMAIN tasks : Alive /\ TestAuth_CallRejects(t) /\ UNCHANGED worker
    \/ \E t \in DOMAIN tasks : Alive /\ PollFeed_Start(t) /\ UNCHANGED worker
    \/ \E t \in DOMAIN tasks : Alive /\ PollFeed_FetchResolves(t) /\ UNCHANGED worker
    \/ \E t \in DOMAIN tasks : Alive /\ PollFeed_Rejects(t) /\ UNCHANGED worker
    \/ \E t \in DOMAIN tasks : Alive /\ PollFeed_TextResolves(t) /\ UNCHANGED worker

\* The worker process from the call of startWorker on, under every answer of the external
\* systems, every interleaving of its timers and callbacks, and stray errors.  With no
\* N8N_BASE_URL in any run of the worker, the list and run requests of a trigger and its
\* catch block are never reached (Spec covers them), and NextWorker does not list them.
SpecWorker == InitWorker /\ [][NextWorker]_vars

\* Line 52: an armed interval timer fires again and again while the process lives; no
\* callback of the worker blocks the event loop (each parks at an await).  Nothing makes
\* an external system answer, so no step of a cycle is fair.
SpecWorkerFair == SpecWorker /\ WF_vars(HeartbeatTick)

(***************************************************************************)
(* Claims.                                                                 *)
(***************************************************************************)
\* The task has left the first line of the operation it invokes.
Started(t) == ~(Len(tasks[t]) = 1 /\ Top(t).pc = "start")

\* Calls of sendOpsMessage made by task t (notification attempts), in order.
Attempts(t) == Events(t, "call", "sendOpsMessage")
\* Those made by runOnce itself: the aggregated failure notification.
Aggregated(t) == SelectSeq(Attempts(t), LAMBDA e : e.data.head = CycleHead)
\* The cycle reports task t has logged.
CycleLogs(t) == Events(t, "log", "worker cycle complete")
\* How often a trigger of task t entered its catch block.
Catches(t) == Count(t, "log", FailedLog("rei")) + Count(t, "log", FailedLog("govcon"))
NoNetwork(t) == \A i \in DOMAIN trace[t] : trace[t][i].kind # "net"

\* An environment value is configured: set and not the empty string.
Configured(v) == v.set /\ v.val # <<>>
\* A base URL is configured: N8N_BASE_URL holds more than nothing or a bare slash.
BaseConfigured == Configured(env["N8N_BASE_URL"]) /\ env["N8N_BASE_URL"].val # <<"/">>
\* The direct webhook URL of a flow.
HookOf(flow) ==
    IF flow = "rei" THEN env["N8N_REI_DISPO_WEBHOOK_URL"]
    ELSE env["N8N_GOVCON_SUBTRAP_WEBHOOK_URL"]

\* C1 as stated: a finished cycle has caused exactly one notification when some flow
\* result is {ok:false} and none when every result is ok, whatever the failure's reason.
C1_OneNotificationPerCycle ==
    \A t \in DOMAIN tasks :
        (Root(t).fn = "runOnce" /\ Finished(t) /\ Len(CycleLogs(t)) = 1) =>
            LET results == CycleLogs(t)[1].data
            IN  Len(Attempts(t)) =
                    IF \E i \in DOMAIN results : ~results[i][2].ok THEN 1 ELSE 0

\* C1 amended: runOnce itself attempts exactly one aggregated notification when some
\* flow result is {ok:false} and none otherwise; it lists every failing flow with its
\* payload and no passing flow; each trigger that caught an error in its list-then-run
\* path has attempted one more notification of its own.
C1_AggregatedNotification ==
    \A t \in DOMAIN tasks :
        Root(t).fn = "runOnce" =>
            /\ Len(CycleLogs(t)) <= 1
            /\ Len(CycleLogs(t)) = 0 => Len(Aggregated(t)) = 0
            /\ Len(Attempts(t)) = Len(Aggregated(t)) + Catches(t)
            /\ Len(CycleLogs(t)) = 1 =>
                  LET results == CycleLogs(t)[1].data
                      failing == {i \in DOMAIN results : ~results[i][2].ok}
                  IN  /\ Len(results) = 2
                      /\ Len(Aggregated(t)) = IF failing # {} THEN 1 ELSE 0
                      /\ failing # {} =>
                            LET body == Aggregated(t)[1].data.body
                            IN  /\ Len(body) = Cardinality(failing)
                                /\ \A i \in failing :
                                      \E j \in DOMAIN body : body[j] = results[i]

\* C1 witness: a finished cycle with one passing and one failing flow, whose trigger
\* caught an error, so that two notifications were attempted.
C1_Witness ==
    \E t \in DOMAIN tasks :
        /\ Root(t).fn = "runOnce" /\ Finished(t) /\ Len(CycleLogs(t)) = 1
        /\ LET results == CycleLogs(t)[1].data
           IN  /\ \E i \in DOMAIN results : results[i][2].ok
               /\ \E i \in DOMAIN results : ~results[i][2].ok
        /\ Len(Aggregated(t)) = 1
        /\ Len(Attempts(t)) = 2

\* C2: a trigger with a webhook URL makes exactly one POST to it and never calls the list
\* or run endpoint; without one but with a base URL it calls the list endpoint exactly
\* once; with neither it makes no network call and returns 'N8N_BASE_URL not set'.
C2_TriggerPath ==
    \A t \in DOMAIN tasks :
        (Root(t).fn = "trigger" /\ Started(t)) =>
            LET hook == HookOf(Root(t).flow)
            IN  /\ Configured(hook) =>
                      /\ Count(t, "net", "webhook") = 1
                      /\ Events(t, "net", "webhook")[1].data.url = hook
                      /\ Count(t, "net", "list") = 0
                      /\ Count(t, "net", "run") = 0
                /\ (~Configured(hook) /\ BaseConfigured) =>
                      /\ Count(t, "net", "list") = 1
                      /\ Count(t, "net", "webhook") = 0
                /\ (~Configured(hook) /\ ~BaseConfigured) =>
                      /\ NoNetwork(t)
                      /\ Finished(t)
                      /\ ret[t] = Value([ok |-> FALSE, error |-> "N8N_BASE_URL not set"])

\* C2 witness: a trigger without a webhook URL has listed the workflows and run one.
C2_Witness ==
    \E t \in DOMAIN tasks :
        /\ Root(t).fn = "trigger" /\ Finished(t)
        /\ ~Configured(HookOf(Root(t).flow))
        /\ Count(t, "net", "list") = 1
        /\ Count(t, "net", "run") = 1
        /\ ret[t].kind = "value" /\ ret[t].val.ok

\* The workflow the claim says is selected: the first whose name has the primary marker,
\* else the first whose name has the fallback marker (0: none).
FirstWith(ws, marker) ==
    LET hits == {i \in DOMAIN ws : ws[i].hasName /\ Includes(ws[i].name, marker)}
    IN  IF hits = {} THEN 0 ELSE CHOOSE i \in hits : \A j \in hits : i <= j
Expected(flow, ws) ==
    IF \E i \in DOMAIN ws : ws[i].hasName /\ Includes(ws[i].name, Primary(flow))
    THEN FirstWith(ws, Primary(flow))
    ELSE FirstWith(ws, Fallback(flow))

\* The list-then-run path was taken and the list was answered with a list of workflows.
ListPath(t) ==
    /\ Root(t).fn = "trigger"
    /\ Count(t, "net", "list") = 1
    /\ world.n8n.kind = "list"

\* C3: the run is posted for, and workflowId is, the id of the first workflow with the
\* primary marker, else of the first with the fallback marker; none gives '... not found'.
C3_WorkflowSelection ==
    \A t \in DOMAIN tasks :
        ListPath(t) =>
            LET ws == world.n8n.data
                sel == Expected(Root(t).flow, ws)
                runs == Events(t, "net", "run")
            IN  /\ \A i \in DOMAIN runs : sel # 0 /\ runs[i].data.id = ws[sel].id
                /\ (Finished(t) /\ Catches(t) = 0) =>
                      IF sel = 0
                      THEN ret[t] = Value([ok |-> FALSE,
                                           error |-> NotFoundError(Root(t).flow)])
                      ELSE /\ ret[t].kind = "value"
                           /\ Has(ret[t].val, "workflowId")
                           /\ ret[t].val.workflowId = ws[sel].id

\* C3 witness: a workflow with only the fallback marker comes first, one with the primary
\* marker second, and the trigger returned the id of the second.
C3_Witness ==
    \E t \in DOMAIN tasks :
        /\ ListPath(t) /\ Finished(t) /\ Root(t).flow = "rei"
        /\ Len(world.n8n.data) = 2
        /\ world.n8n.data[1].id = 2 /\ world.n8n.data[2].id = 3
        /\ ret[t].kind = "value" /\ Has(ret[t].val, "workflowId")
        /\ ret[t].val.workflowId = 3

\* C4: a trigger that caught an error in its list-then-run path attempts one notification
\* with the error text and returns {ok:false, error}; it never ends by throwing.
C4_CatchReturns ==
    \A t \in DOMAIN tasks :
        (Root(t).fn = "trigger" /\ Finished(t) /\ Catches(t) > 0) =>
            /\ Len(Attempts(t)) = 1
            /\ ret[t].kind = "value"
            /\ ret[t].val.ok = FALSE
            /\ ret[t].val.error = Attempts(t)[1].data.body

\* C5: no invocation of a flow trigger or of the feed poll ends by throwing, and a
\* non-2xx status it reports comes with ok:false.
C5_TransportErrorsReturned ==
    \A t \in DOMAIN tasks :
        (Root(t).fn \in {"trigger", "pollGovConFeed"} /\ Finished(t)) =>
            /\ ret[t].kind = "value"
            /\ Has(ret[t].val, "status") => (ret[t].val.ok <=> IsOk(ret[t].val.status))

\* C6: sendOpsMessage never raises: every call ends by returning {ok, ...}, and a
\* non-2xx rejection by returning {ok:false, status, text}.
C6_NotifierNeverRaises ==
    \A t \in DOMAIN tasks :
        (Root(t).fn = "sendOpsMessage" /\ Finished(t)) =>
            /\ ret[t].kind = "value"
            /\ Has(ret[t].val, "ok")
            /\ Has(ret[t].val, "status") =>
                  /\ ~ret[t].val.ok /\ ~IsOk(ret[t].val.status) /\ Has(ret[t].val, "text")

\* C7: without a destination (options.webhookUrl, DISCORD_WEBHOOK_OPS) sendOpsMessage
\* returns {ok:false, error: not set} and makes no request; with one it makes exactly one POST.
C7_NotifierDestination ==
    \A t \in DOMAIN tasks :
        (Root(t).fn = "sendOpsMessage" /\ Started(t)) =>
            LET dest == Configured(Root(t).options.webhookUrl)
                            \/ Configured(env["DISCORD_WEBHOOK_OPS"])
            IN  /\ ~dest =>
                      /\ Finished(t)
                      /\ ret[t] = Value([ok |-> FALSE, error |-> "DISCORD_WEBHOOK_OPS is not set"])
                      /\ NoNetwork(t)
                /\ dest =>
                      /\ Count(t, "net", "discord") = 1
                      /\ \A i \in DOMAIN trace[t] :
                            trace[t][i].kind = "net" => trace[t][i].what = "discord"

\* C7 witness: the destination comes from options alone and one POST was made to it.
C7_Witness ==
    \E t \in DOMAIN tasks :
        /\ Root(t).fn = "sendOpsMessage" /\ Finished(t)
        /\ Configured(Root(t).options.webhookUrl)
        /\ ~Configured(env["DISCORD_WEBHOOK_OPS"])
        /\ Count(t, "net", "discord") = 1
        /\ Events(t, "net", "discord")[1].data.url = Root(t).options.webhookUrl
        /\ ret[t] = Value([ok |-> TRUE])

\* A credential is absent: unset, empty or blank.
Absent(k) == ~env[k].set \/ \A i \in DOMAIN env[k].val : env[k].val[i] = " "
AbsentKeys(svc) == {k \in {RequiredKeys(svc)[1], RequiredKeys(svc)[2]} : Absent(k)}

\* C8: an auth probe with absent credentials returns {ok:false} naming exactly the absent
\* keys and makes no network call; with none absent it makes the external call and a
\* failure result names no missing key.
C8_MissingCredentials ==
    \A t \in DOMAIN tasks :
        (Root(t).fn = "testAuth" /\ Started(t)) =>
            LET absent == AbsentKeys(Root(t).svc)
            IN  /\ absent # {} =>
                      /\ Finished(t)
                      /\ ret[t].kind = "value"
                      /\ ret[t].val.ok = FALSE
                      /\ {ret[t].val.missing[i] : i \in DOMAIN ret[t].val.missing} = absent
                      /\ Len(ret[t].val.missing) = Cardinality(absent)
                      /\ NoNetwork(t)
                /\ absent = {} =>
                      /\ Count(t, "net", Root(t).svc) = 1
                      /\ (Finished(t) /\ ~ret[t].val.ok) => ret[t].val.missing = <<>>

\* C8 witness: one credential is blank, the other set, and the probe named the blank one.
C8_Witness ==
    \E t \in DOMAIN tasks :
        /\ Root(t).fn = "testAuth" /\ Finished(t)
        /\ env[RequiredKeys(Root(t).svc)[1]] = Str(<<" ">>)
        /\ ~Absent(RequiredKeys(Root(t).svc)[2])
        /\ ret[t].val.ok = FALSE
        /\ ret[t].val.missing = <<RequiredKeys(Root(t).svc)[1]>>

\* C9: once the timeout timer of an auth probe has fired, its external call is no longer
\* in flight: the probe has been cancelled and returns a failure.
C9_TimeoutCancels ==
    \A t \in DOMAIN tasks :
        ~(At(t, "testAuth", "call") /\ Top(t).timer = "fired")

\* C10: a probe answered with a non-2xx status s returns {ok:false, status: s}.
C10_ProbeStatus ==
    \A t \in DOMAIN tasks :
        (Root(t).fn \in {"testAuth", "pollGovConFeed"} /\ Finished(t)) =>
            \A i \in DOMAIN trace[t] :
                (/\ trace[t][i].kind = "resp"
                 /\ trace[t][i].data.status # 0
                 /\ ~IsOk(trace[t][i].data.status)) =>
                    /\ ret[t].kind = "value"
                    /\ ret[t].val.ok = FALSE
                    /\ Has(ret[t].val, "status")
                    /\ ret[t].val.status = trace[t][i].data.status

\* The startup probes, by the name of their task, and the call startupChecks makes of each.
StartupProbes == {"airtable", "twilio", "feed"}
StartupCalls ==
    <<CallEv("testAuth", TestAuthFrame("airtable", 2000)),
      CallEv("testAuth", TestAuthFrame("twilio", 2000)),
      CallEv("pollGovConFeed", PollFrame(1))>>

\* The aggregates startupChecks has logged.
StartupLogs == Events(Main, "log", "worker startup checks complete")

\* C11: startupChecks runs once and calls the three probes before it waits for any; a
\* step of one probe, its failure included, leaves the other two as they are; the
\* aggregate is logged once all three have settled and holds the outcome of each.
C11_StartupProbes ==
    /\ [](/\ Len(StartupLogs) <= 1
          /\ Len(SelectSeq(trace[Main], LAMBDA e : e.kind = "call")) \in {0, 3}
          /\ At(Main, "startupChecks", "allSettled") =>
                /\ SelectSeq(trace[Main], LAMBDA e : e.kind = "call") = StartupCalls
                /\ StartupProbes \subseteq DOMAIN tasks
                /\ \A p \in StartupProbes : CallOf(Root(p)) \in {StartupCalls[i] : i \in 1..3})
    /\ [][/\ \A p \in StartupProbes : \A q \in StartupProbes \ {p} :
                (/\ p \in DOMAIN tasks /\ p \in DOMAIN tasks'
                 /\ <<tasks[p], ret[p]>> # <<tasks'[p], ret'[p]>>) =>
                    /\ q \in DOMAIN tasks'
                    /\ <<tasks[q], ret[q], trace[q]>> = <<tasks'[q], ret'[q], trace'[q]>>
          /\ Len(StartupLogs') > Len(StartupLogs) =>
                /\ \A p \in StartupProbes : Finished(p)
                /\ StartupLogs'[1].data =
                      <<Outcome(ret["airtable"]), Outcome(ret["twilio"]), Outcome(ret["feed"])>>]_vars

\* C11 witness: the aggregate is logged; the Twilio probe failed, the other two succeeded.
C11_Witness ==
    /\ Len(StartupLogs) = 1
    /\ StartupLogs[1].data[1].value.ok
    /\ ~StartupLogs[1].data[2].value.ok
    /\ StartupLogs[1].data[3].value.ok

\* The heartbeat lines logged so far: one for each heartbeat tick fired.
Heartbeats ==
    IF Timers \in DOMAIN trace THEN Events(Timers, "log", "worker heartbeat") ELSE <<>>

\* C12: the heartbeat counter is the number of heartbeat ticks fired: it starts at 0, a
\* tick adds one, and no other step (a cycle tick, a step of a trigger, of a notification
\* or of a crash handler) changes it.
C12_HeartbeatCounter ==
    /\ [](/\ worker.iteration = Len(Heartbeats)
          /\ \A i \in DOMAIN Heartbeats : Heartbeats[i].data.iteration = i)
    /\ [][\/ /\ worker'.iteration = worker.iteration + 1
             /\ Len(Heartbeats') = Len(Heartbeats) + 1
             /\ UNCHANGED <<tasks, ret>>
          \/ /\ worker'.iteration = worker.iteration
             /\ Heartbeats' = Heartbeats]_vars

\* C12 witness: one heartbeat tick has fired and the counter is 1, while a cycle is under
\* way whose first trigger has returned.
C12_Witness ==
    /\ Len(Heartbeats) = 1
    /\ worker.iteration = 1
    /\ \E t \in DOMAIN tasks :
          /\ IsCycle(t)
          /\ At(t, "runOnce", "awaitRei") /\ Settled(t)

\* The run has room for one more heartbeat tick.
BeatsLeft == worker.iteration < MaxBeats /\ InBudget

\* C13: once the timers are installed the heartbeat does not depend on the cycles: a
\* tick can fire in every state, whatever the cycles under way are parked at; a tick
\* changes no pending call, makes no request and cannot fail; and ticks keep firing even
\* if no cycle ever moves again.
C13_HeartbeatIndependent ==
    /\ []((TimersArmed /\ BeatsLeft) => ENABLED HeartbeatTick)
    /\ [][worker'.iteration # worker.iteration =>
             /\ UNCHANGED <<tasks, ret, env, world>>
             /\ worker' = [worker EXCEPT !.iteration = worker'.iteration]
             /\ \A t \in DOMAIN tasks : trace'[t] = trace[t]]_vars
    /\ [](TimersArmed => <>(~BeatsLeft))

\* C13 witness: a cycle has failed (runOnce rejected), and a heartbeat tick fired after it.
C13_Witness ==
    /\ TimersArmed
    /\ \E i \in DOMAIN trace[Timers] : \E j \in DOMAIN trace[Timers] :
          /\ i < j
          /\ trace[Timers][i].what = "runOnce failed"
          /\ trace[Timers][j].what = "worker heartbeat"

\* The run has room for one more cycle tick.
CyclesLeft == worker.cycles < MaxCycles /\ InBudget

\* The cycles under way.
Cycles == {t \in DOMAIN tasks : IsCycle(t)}

\* C14: overlapping cycles are not prevented: a cycle tick can fire in every state with
\* the timers armed, whether or not a cycle is under way, and it starts a new runOnce
\* beside the cycles under way, which it leaves as they are.
C14_OverlappingCycles ==
    /\ []((TimersArmed /\ CyclesLeft) => ENABLED CycleTick)
    /\ [][worker'.cycles # worker.cycles =>
             \E t \in DOMAIN tasks' \ DOMAIN tasks :
                 /\ worker'.cycles = worker.cycles + 1
                 /\ DOMAIN tasks' = DOMAIN tasks \cup {t}
                 /\ tasks'[t] = <<RunOnceFrame, CycleFrame>>
                 /\ \A u \in DOMAIN tasks :
                       <<tasks'[u], ret'[u], trace'[u]>> = <<tasks[u], ret[u], trace[u]>>]_vars

\* C14 witness: two cycles are under way, each inside a trigger that awaits its request.
C14_Witness ==
    \E t \in Cycles : \E u \in Cycles \ {t} :
        /\ At(t, "trigger", "webhookFetch")
        /\ At(u, "trigger", "webhookFetch")

\* The flows whose trigger task t has invoked, in order.
Invoked(t) ==
    LET calls == Events(t, "call", "trigger")
    IN  [i \in DOMAIN calls |-> calls[i].data.flow]

\* Where the runOnce of cycle t is parked; "ended" once it has settled.
RunOncePc(t) ==
    IF Len(tasks[t]) >= 2 THEN tasks[t][Len(tasks[t]) - 1].pc ELSE "ended"

C16_StartFailureExits ==
    Fail \in DOMAIN tasks =>
        /\ worker.phase = "exited" =>
              /\ worker.code = 1
              /\ Count(Fail, "log", "worker failed to start") = 1
              /\ Count(Fail, "call", "sendOpsMessage") = 1
              /\ trace[Fail][2].what = "worker failed to start"
              /\ trace[Fail][3].what = "sendOpsMessage"
              /\ trace[Fail][Len(trace[Fail])].what = "process.exit"
        /\ Finished(Fail) => (worker.phase = "exited" /\ worker.code = 1)

\* The crash handlers under way.
Crashes == {t \in DOMAIN tasks : IsCrash(t)}

\* C17: with the timers installed, every error that reaches the process is handed to its
\* handler, which logs it and then makes one notification attempt; no step of a handler
\* ends the process or disarms a timer, so heartbeat and cycle ticks go on.
C17_CrashHandlers ==
    /\ []((TimersArmed /\ Len(worker.pending) > 0 /\ worker.crashes < MaxCrashes) =>
             ENABLED Crash_Emit)
    /\ [](\A t \in Crashes :
             LET kind == Root(t).kind
                 text == StringOf(Root(t).err)
                 said == SelectSeq(trace[t], LAMBDA e : e.kind \in {"log", "call"})
             IN  IF At(t, "crashHandler", "start")
                 THEN said = <<>> /\ ENABLED (Crash_Start(t))
                 ELSE /\ Len(said) >= 2
                      /\ said[1] = LogEv(kind, text)
                      /\ said[2] = CallEv("sendOpsMessage",
                                      [typ |-> "string", head |-> "Worker " \o kind \o ": ",
                                       body |-> text])
                      /\ Count(t, "call", "sendOpsMessage") = 1)
    /\ [][TimersArmed => (TimersArmed' /\ worker'.code = 0)]_vars
    /\ []((TimersArmed /\ worker.crashes > 0 /\ BeatsLeft) => ENABLED HeartbeatTick)
    /\ []((TimersArmed /\ worker.crashes > 0 /\ CyclesLeft) => ENABLED CycleTick)

\* C17 witness: an unhandledRejection has been logged and its notification attempt has
\* failed; the timers are armed and a cycle started by a tick is at its first line.
C17_Witness ==
    /\ TimersArmed
    /\ \E t \in Crashes :
          /\ Root(t).kind = "unhandledRejection"
          /\ At(t, "crashHandler", "notify")
          /\ ret[t].kind = "throw"
    /\ \E c \in Cycles : At(c, "runOnce", "start")

\* The runOnce frame of cycle t, while its runOnce has not ended, and its results.
HasReport(t) == Len(tasks[t]) >= 2 /\ tasks[t][Len(tasks[t]) - 1].fn = "runOnce"
Report(t) == tasks[t][Len(tasks[t]) - 1].results

\* The entries of a report whose result is not ok.
Failed(report) == SelectSeq(report, LAMBDA p : p[2].ok = FALSE)

\* C21: overlapping cycles do not mix their reports: the report of a cycle grows only by
\* the result of the trigger that cycle itself awaited, no step of another cycle changes
\* it, and the cycle's aggregated notification lists the failures of its own report.
C21_ReportsNotMixed ==
    /\ [][\A t \in Cycles :
             (t \in DOMAIN tasks' /\ HasReport(t) /\ HasReport(t)' /\ Report(t)' # Report(t)) =>
                 /\ Settled(t)
                 /\ RunOncePc(t) \in {"awaitRei", "awaitGovcon"}
                 /\ Report(t)' =
                       Append(Report(t),
                              <<IF RunOncePc(t) = "awaitRei" THEN "rei" ELSE "govcon",
                                IF ret[t].kind = "throw"
                                THEN [ok |-> FALSE, error |-> StringOf(ret[t].val)]
                                ELSE ret[t].val>>)
                 /\ \A u \in Cycles \ {t} :
                       u \in DOMAIN tasks' /\ tasks'[u] = tasks[u] /\ ret'[u] = ret[u]]_vars
    /\ [](\A t \in Cycles :
             /\ HasReport(t) =>
                   Len(Report(t)) = (CASE RunOncePc(t) = "start" -> 0
                                       [] RunOncePc(t) = "awaitRei" -> 0
                                       [] RunOncePc(t) = "awaitGovcon" -> 1
                                       [] OTHER -> 2)
             /\ Len(Aggregated(t)) <= 1
             /\ (HasReport(t) /\ Len(Aggregated(t)) = 1) =>
                   /\ RunOncePc(t) = "awaitNotify"
                   /\ Aggregated(t)[1].data.body = Failed(Report(t))
                   /\ Events(t, "log", "worker cycle complete")[1].data = Report(t))

\* C21 witness: two cycles are under way at once, each awaiting its aggregated
\* notification; their REI triggers settled differently, and each reports its own.
C21_Witness ==
    \E t \in Cycles : \E u \in Cycles \ {t} :
        /\ RunOncePc(t) = "awaitNotify" /\ RunOncePc(u) = "awaitNotify"
        /\ Report(t)[1][2].ok /\ ~Report(u)[1][2].ok
        /\ Len(Aggregated(t)[1].data.body) = 1
        /\ Len(Aggregated(u)[1].data.body) = 2

\* A flow trigger has been invoked by some task of the process.
TriggerInvoked == \E t \in DOMAIN trace : Count(t, "call", "trigger") > 0

\* Some startup probe has been called and has not settled.
ProbePending == \E p \in StartupProbes : p \in DOMAIN tasks /\ ~Finished(p)

\* C22: the timers are installed only once the three startup probes have settled.  Until
\* then no trigger is invoked, no cycle runs and the heartbeat counter is 0; while a probe
\* has not settled startupChecks cannot return and the timers cannot be installed, so a
\* probe that never settles leaves the worker without timers for good.  The step that
\* installs the timers starts no cycle: a cycle is started only by a tick of the installed
\* cycle timer, in a later step.
C22_TimersAfterStartup ==
    /\ [](~TimersArmed =>
             /\ Cycles = {} /\ ~TriggerInvoked
             /\ worker.iteration = 0 /\ worker.cycles = 0
             /\ Timers \notin DOMAIN trace
             /\ ~ENABLED CycleTick /\ ~ENABLED HeartbeatTick)
    /\ [](ProbePending =>
             /\ worker.phase = "starting" /\ At(Main, "startupChecks", "allSettled")
             /\ ~ENABLED (StartupChecks_Settles(Main))
             /\ ~ENABLED (StartWorker_InstallTimers(Main)))
    /\ [](TimersArmed =>
             /\ Len(StartupLogs) = 1
             /\ SelectSeq(trace[Main], LAMBDA e : e.kind = "call") = StartupCalls
             /\ StartupProbes \cap DOMAIN tasks = {})
    /\ [][/\ Len(StartupLogs') > Len(StartupLogs) =>
                \A p \in StartupProbes : p \in DOMAIN tasks /\ Finished(p)
          /\ (~TimersArmed /\ TimersArmed') =>
                /\ Len(StartupLogs) = 1
                /\ Cycles' = {} /\ ~TriggerInvoked'
                /\ worker'.cycles = 0 /\ worker'.iteration = 0
                /\ trace'[Timers] = <<>>
          /\ worker'.cycles # worker.cycles =>
                /\ TimersArmed
                /\ worker'.cycles = worker.cycles + 1
          /\ \A t \in Cycles' \ Cycles : TimersArmed /\ worker'.cycles = worker.cycles + 1]_vars

\* C22 witness: the three probes have settled (one of them failed), the timers are
\* installed, the heartbeat has counted once and the first cycle has invoked a trigger.
C22_Witness ==
    /\ TimersArmed
    /\ Len(StartupLogs) = 1 /\ ~StartupLogs[1].data[2].value.ok
    /\ worker.iteration = 1
    /\ \E t \in Cycles : Invoked(t) = <<"rei">>

\* C22 witness of the wait: two probes have settled, the third has not, and the worker
\* is still starting with no timer.
C22_WitnessPending ==
    /\ worker.phase = "starting"
    /\ StartupProbes \subseteq DOMAIN tasks
    /\ Finished("airtable") /\ Finished("twilio") /\ ~Finished("feed")
    /\ ~ENABLED (StartWorker_InstallTimers(Main))

\* The invocation under way is one of runOnce; where it is parked ("ended" once settled).
RunsOnce == Root(Main).fn = "runOnce"
OncePc == IF Len(tasks[Main]) >= 1 THEN tasks[Main][Len(tasks[Main])].pc ELSE "ended"
\* The trigger runOnce awaits has settled: runOnce is the running frame again.
TriggerSettled(pc) == At(Main, "runOnce", pc) /\ Settled(Main)

\* C23: within one cycle the triggers run one after the other, REI first.  The GovCon
\* trigger is invoked in a step taken with the REI trigger settled, and that step is taken
\* whether the REI trigger returned ok, returned a failure or threw; the aggregated
\* notification is sent in a step taken with the GovCon trigger settled.  While the REI
\* trigger has not settled, the GovCon trigger is not invoked and nothing is notified by
\* runOnce, so an REI trigger that never settles leaves the cycle there for good.
C23_TriggersInSequence ==
    /\ [](RunsOnce =>
             /\ Invoked(Main) =
                   CASE OncePc = "start" -> <<>>
                     [] OncePc = "awaitRei" -> <<"rei">>
                     [] OTHER -> <<"rei", "govcon">>
             /\ OncePc \in {"start", "awaitRei", "awaitGovcon"} =>
                   Aggregated(Main) = <<>> /\ CycleLogs(Main) = <<>>
             /\ TriggerSettled("awaitRei") =>
                   ENABLED (RunOnce_ReiSettles(Main) /\ UNCHANGED worker)
             /\ TriggerSettled("awaitGovcon") =>
                   ENABLED (RunOnce_GovconSettles(Main) /\ UNCHANGED worker)
             /\ (OncePc = "awaitRei" /\ ~TriggerSettled("awaitRei")) =>
                   ~ENABLED (RunOnce_ReiSettles(Main) /\ UNCHANGED worker)
             /\ (OncePc = "awaitGovcon" /\ ~TriggerSettled("awaitGovcon")) =>
                   ~ENABLED (RunOnce_GovconSettles(Main) /\ UNCHANGED worker))
    /\ [][RunsOnce =>
             /\ Len(Invoked(Main)') > Len(Invoked(Main)) =>
                   IF Invoked(Main) = <<>> THEN At(Main, "runOnce", "start")
                   ELSE TriggerSettled("awaitRei")
             /\ (TriggerSettled("awaitRei") /\ tasks' # tasks) =>
                   /\ Invoked(Main)' = <<"rei", "govcon">>
                   /\ OncePc' = "awaitGovcon"
             /\ Len(Aggregated(Main)') > Len(Aggregated(Main)) =>
                   /\ TriggerSettled("awaitGovcon")
                   /\ Len(Aggregated(Main)') = 1
                   /\ OncePc' = "awaitNotify"]_vars

\* C23 witness: the REI trigger threw, the GovCon trigger was invoked all the same and
\* returned ok, and the aggregated notification, naming the REI failure, is awaited.
C23_Witness ==
    /\ RunsOnce
    /\ OncePc = "awaitNotify"
    /\ Invoked(Main) = <<"rei", "govcon">>
    /\ Len(Aggregated(Main)) = 1
    /\ Aggregated(Main)[1].data.body =
          <<<<"rei", [ok |-> FALSE, error |-> StringOf(NetError)]>>>>

\* The invocation under way is one of a flow trigger; its calls of the run endpoint.
Triggers == Root(Main).fn = "trigger"
Runs == Events(Main, "net", "run")
\* The position in the trace of task t of its first network call to an endpoint (0: none).
FirstNet(t, what) ==
    LET at == {i \in DOMAIN trace[t] : trace[t][i].kind = "net" /\ trace[t][i].what = what}
    IN  IF at = {} THEN 0 ELSE CHOOSE i \in at : \A j \in at : i <= j
\* The list endpoint answers with a body in which no workflow matches the flow's markers.
NoMatch == world.n8n.kind # "notArray" /\ Expected(Root(Main).flow, world.n8n.data) = 0

\* What a trigger reports when the list call itself failed: the request was rejected,
\* or its body was no JSON.
ListFailures == {StringOf(NetError), StringOf(JsonError)}

\* C24: in the list-then-run path the run endpoint is called at most once, in the step
\* that handles the list endpoint's answer and so after the list call, and for the id of
\* the workflow the markers select.  When the answer holds no matching workflow, the
\* run endpoint is never called and the trigger ends with '... not found', having logged
\* no failure and attempted no notification; the only notification a trigger attempts
\* with such a list is the one for a list call that failed instead of answering.
C24_RunAfterList ==
    /\ [](Triggers =>
             /\ Len(Runs) <= 1
             /\ Len(Runs) = 1 =>
                   /\ FirstNet(Main, "list") # 0
                   /\ FirstNet(Main, "list") < FirstNet(Main, "run")
                   /\ Count(Main, "net", "list") = 1
                   /\ world.n8n.kind = "list"
                   /\ Expected(Root(Main).flow, world.n8n.data) # 0
                   /\ Runs[1].data.id =
                         world.n8n.data[Expected(Root(Main).flow, world.n8n.data)].id
             /\ NoMatch => Runs = <<>>
             /\ NoMatch =>
                   /\ Catches(Main) = Len(Attempts(Main))
                   /\ \A i \in DOMAIN Attempts(Main) :
                         Attempts(Main)[i].data.body \in ListFailures
             /\ (NoMatch /\ Attempts(Main) = <<>> /\ Count(Main, "net", "list") = 1
                   /\ Finished(Main)) =>
                   ret[Main] = Value([ok |-> FALSE, error |-> NotFoundError(Root(Main).flow)]))
    /\ [][Triggers =>
             /\ Runs' # Runs =>
                   /\ At(Main, "trigger", "listFetch")
                   /\ Runs = <<>>
                   /\ At(Main, "trigger", "runFetch")'
             /\ (At(Main, "trigger", "listFetch") /\ NoMatch /\ tasks' # tasks) =>
                   \/ Finished(Main)' /\ trace' = trace
                   \/ /\ Len(Attempts(Main)') = 1
                      /\ Attempts(Main)'[1].data.body \in ListFailures]_vars

\* C24 witness: the GovCon trigger listed two workflows, ran the second (the one that
\* matches) once, and returned the run's refusal.
C24_Witness ==
    /\ Triggers /\ Root(Main).flow = "govcon" /\ Finished(Main)
    /\ Len(world.n8n.data) = 2
    /\ world.n8n.data[1].id = 1 /\ world.n8n.data[2].id = 4
    /\ Len(Runs) = 1 /\ Runs[1].data.id = 4
    /\ ret[Main] = Value([ok |-> FALSE, status |-> 500, workflowId |-> 4])

\* C24 witness of the other case: the list held one workflow that does not match; the
\* trigger returned 'not found' with the operational channel configured and unused.
C24_WitnessNoMatch ==
    /\ Triggers /\ Finished(Main)
    /\ Truthy(env["DISCORD_WEBHOOK_OPS"])
    /\ Len(world.n8n.data) = 1 /\ world.n8n.data[1].id = 1
    /\ Count(Main, "net", "list") = 1
    /\ ret[Main] = Value([ok |-> FALSE, error |-> NotFoundError(Root(Main).flow)])
    /\ Runs = <<>> /\ Attempts(Main) = <<>>

\* C25: the crash handlers do not re-enter themselves: with the timers installed, the
\* errors handed or about to be handed to a handler are the original errors of the
\* process only; the failure of a handler's own notification is never among them, so
\* every handler run answers one original error.
C25_NoReentry ==
    TimersArmed =>
        /\ \A i \in DOMAIN worker.pending : worker.pending[i] = CrashError
        /\ \A t \in Crashes : Root(t).err = CrashError

\* The answers task t has sent to its request.
Responses(t) == Events(t, "http", "response")

\* The step in which the handler task t sends its answer to the result r of its operation.
AnswersTo(t, r) ==
    /\ At(t, "handler", "await")
    /\ ret[t] = r
    /\ Len(tasks'[t]) = 0

\* C18: a test endpoint answers with its probe's result, and with status 200 exactly when
\* the result is ok, else 500; the discord test answers 500 when the notifier returns
\* {ok:false}.
C18_TestEndpoints ==
    [][\A t \in DOMAIN tasks :
          \A r \in {ret[t]} :
              (/\ Root(t).fn = "handler" /\ Root(t).route \in TestRoutes
               /\ AnswersTo(t, r)
               /\ r.kind = "value") =>
                  Responses(t)' = <<HttpEv(IF r.val.ok THEN 200 ELSE 500, r.val)>>]_vars

\* C19: a trigger endpoint invokes its flow's trigger exactly once, answers exactly once,
\* with the trigger's result and status 200 exactly when the result is ok, else 500, and
\* with status 500 and {ok:false, error} when the trigger throws.
C19_TriggerEndpoints ==
    /\ [](\A t \in DOMAIN tasks :
             (Root(t).fn = "handler" /\ Root(t).route \in TriggerRoutes /\ Finished(t)) =>
                 /\ Len(Responses(t)) = 1
                 /\ Events(t, "call", "trigger") =
                       <<CallEv("trigger", TriggerFrame(
                            IF Root(t).route = "POST /ops/trigger/rei" THEN "rei" ELSE "govcon"))>>)
    /\ [][\A t \in DOMAIN tasks :
             \A r \in {ret[t]} :
                 (/\ Root(t).fn = "handler" /\ Root(t).route \in TriggerRoutes
                  /\ AnswersTo(t, r)) =>
                     Responses(t)' =
                        IF r.kind = "throw"
                        THEN <<HttpEv(500, [ok |-> FALSE, error |-> StringOf(r.val)])>>
                        ELSE <<HttpEv(IF r.val.ok THEN 200 ELSE 500, r.val)>>]_vars

\* C19 witness: the trigger of a request threw, and the request was answered with 500.
C19_Witness ==
    \E t \in DOMAIN tasks :
        /\ Root(t).fn = "handler" /\ Root(t).route \in TriggerRoutes /\ Finished(t)
        /\ Count(t, "log", HandlerLog(Root(t).route)) = 1
        /\ Len(Responses(t)) = 1
        /\ Responses(t)[1].data.status = 500

\* The feed was fetched with a 2xx status and its body was read by task t.
FeedRead(t) ==
    /\ Finished(t)
    /\ \E i \in DOMAIN trace[t] :
          trace[t][i].kind = "resp" /\ trace[t][i].what = "feed" /\ IsOk(trace[t][i].data.status)
    /\ Count(t, "log", "GovCon feed poll failed") = 0
       \/ Events(t, "log", "GovCon feed poll failed")[1].data # StringOf(NetError)

\* The number of entries the feed holds.
FeedSize == IF world.feed.kind = "atom" THEN Len(world.feed.entries) ELSE 0

\* The first n entries of a feed of m entries, each reduced to title and id.
FirstEntries(n, m) ==
    [i \in 1..(IF n < m THEN n ELSE m) |-> [title |-> FeedEntry(i).title, id |-> FeedEntry(i).id]]

\* The limit a request of the sample route names: the number written in the query.
Named(limit) ==
    CASE limit = Str(<<"0">>) -> 0
      [] limit = Str(<<"2">>) -> 2
      [] limit = Str(<<"1", "0">>) -> 10
      [] limit = Unset -> 5

\* C20: a feed poll with sample size N that read a feed of M entries returns ok:true,
\* count M and the first min(N, M) entries reduced to title and id; the sample route
\* passes the limit of the query through, and 5 when the query names none.
C20_FeedSample ==
    \A t \in DOMAIN tasks :
        /\ (Root(t).fn = "pollGovConFeed" /\ FeedRead(t)) =>
              ret[t] = Value([ok |-> TRUE, count |-> FeedSize,
                              sample |-> FirstEntries(Root(t).limit, FeedSize)])
        /\ (/\ Root(t).fn = "handler" /\ Root(t).route = SampleRoute
            /\ Root(t).query.limit # Str(<<>>) /\ Started(t)) =>
              Events(t, "call", "pollGovConFeed") =
                  <<CallEv("pollGovConFeed", PollFrame(Named(Root(t).query.limit)))>>

====
